---- MODULE Spec2Model ----
(***************************************************************************)
(* Booking and scheduling engine of the barber bot: the slot generator     *)
(* (buildSlotsForDay), the booking transactor (bookAppointment) with its   *)
(* post-commit race reconciliation, cancellation, and the appointments     *)
(* sheet with its archive and per-day cache, the clients sheet, and the    *)
(* completion sweep of the reminders scheduler.                            *)
(*                                                                         *)
(* Instants are minutes counted from 00:00 of day 0.  A wall-clock         *)
(* "HH:mm" string is the pair <<h, m>>; the empty string is <<>>.          *)
(***************************************************************************)
EXTENDS Integers, Sequences, FiniteSets, TLC

VARIABLES gIn, gOut, clock, rows, dayCache, procs, cancels, listed,
          archive, clients, sweep, reader, updater, archiver, limiter

genVars == <<gIn, gOut>>
engVars == <<clock, rows, dayCache, procs, cancels, listed, archive, clients, sweep>>
storeVars == <<updater, archiver, limiter>>
vars == <<gIn, gOut, clock, rows, dayCache, procs, cancels, listed, archive, clients, sweep,
          reader, updater, archiver, limiter>>

(***************************************************************************)
(* Statuses (booking.js STATUSES)                                          *)
(***************************************************************************)
ACTIVE == "active"
CANCELLED == "cancelled"
COMPLETED == "completed"
BLOCKED == "blocked"

STATUSES == {ACTIVE, CANCELLED, COMPLETED, BLOCKED}

(***************************************************************************)
(* Wall-clock conversions (dayjs.tz parse and format("HH:mm"))             *)
(***************************************************************************)
MinutesPerDay == 24 * 60

EmptyStr == <<>>

\* dayjs.tz(`${date}T${hm}:00`, timezone)
ToInstant(date, hm) == date * MinutesPerDay + hm[1] * 60 + hm[2]

\* instant.format("HH:mm")
FormatHHmm(inst) == <<(inst % MinutesPerDay) \div 60, inst % 60>>

\* `${dateStr}T${String(hour).padStart(2, "0")}:00:00`
HourToInstant(date, hour) == date * MinutesPerDay + hour * 60

\* intervals that share an end point count as overlapping
intervalsOverlapClosed(aStart, aEnd, bStart, bEnd) == aStart <= bEnd /\ bStart <= aEnd

intervalsOverlap(aStart, aEnd, bStart, bEnd) == aStart < bEnd /\ bStart < aEnd

(***************************************************************************)
(* Slot generator (buildSlotsForDay)                                       *)
(***************************************************************************)
SlotStep == 15

NoHour == -1

NullWorkday == [isNull |-> TRUE]

Workday(startHour, endHour, start, end, lunchStart, lunchEnd) ==
  [isNull |-> FALSE, startHour |-> startHour, endHour |-> endHour,
   start |-> start, end |-> end, lunchStart |-> lunchStart, lunchEnd |-> lunchEnd]

\* the day's bounds, or <<>> when no working hours are provided
DayBounds(dateStr, workday) ==
  IF ~workday.isNull /\ workday.startHour # NoHour
  THEN <<HourToInstant(dateStr, workday.startHour), HourToInstant(dateStr, workday.endHour)>>
  ELSE IF ~workday.isNull /\ workday.start # EmptyStr /\ workday.end # EmptyStr
       THEN <<ToInstant(dateStr, workday.start), ToInstant(dateStr, workday.end)>>
       ELSE <<>>

RowInterval(row) ==
  [start |-> ToInstant(row.date, row.timeStart), end |-> ToInstant(row.date, row.timeEnd)]

BlockedIntervals(schedule) ==
  {RowInterval(schedule[i]) : i \in {j \in 1..Len(schedule) : schedule[j].status = BLOCKED}}

ActiveIntervals(appointments) ==
  {RowInterval(appointments[i]) :
     i \in {j \in 1..Len(appointments) : appointments[j].status = ACTIVE}}

\* the lunch gap is not taken into account
LunchIgnored(dateStr, workday) == {}

\* lunch bounds given in the wrong order are swapped
LunchSwapped(dateStr, workday) ==
  IF ~workday.isNull /\ workday.lunchStart # EmptyStr /\ workday.lunchEnd # EmptyStr
  THEN LET ls == ToInstant(dateStr, workday.lunchStart)
           le == ToInstant(dateStr, workday.lunchEnd)
       IN IF ls < le THEN {[start |-> ls, end |-> le]}
          ELSE IF le < ls THEN {[start |-> le, end |-> ls]} ELSE {}
  ELSE {}

LunchIntervals(dateStr, workday) ==
  IF ~workday.isNull /\ workday.lunchStart # EmptyStr /\ workday.lunchEnd # EmptyStr
  THEN LET ls == ToInstant(dateStr, workday.lunchStart)
           le == ToInstant(dateStr, workday.lunchEnd)
       IN IF ls < le THEN {[start |-> ls, end |-> le]} ELSE {}
  ELSE {}

BusyIntervals(dateStr, workday, schedule, appointments) ==
  BlockedIntervals(schedule) \cup ActiveIntervals(appointments)
    \cup LunchIntervals(dateStr, workday)

IsBusy(slotStart, slotEnd, busy) ==
  \E iv \in busy : intervalsOverlap(slotStart, slotEnd, iv.start, iv.end)

\* the last slot must end before closing time
SlotFitsStrict(cursor, serviceDuration, dayEnd) == cursor + serviceDuration < dayEnd

\* loop condition: cursor.add(serviceDuration, "minute") <= dayEnd
SlotFits(cursor, serviceDuration, dayEnd) == cursor + serviceDuration <= dayEnd

\* a slot starting at now counts as past
IsPastOrNow(slotStart, now) == slotStart <= now

\* slotStart.isBefore(now)
IsPast(slotStart, now) == slotStart < now

RECURSIVE SlotLoop(_, _, _, _, _, _)
SlotLoop(cursor, dayEnd, serviceDuration, busy, now, slots) ==
  IF SlotFits(cursor, serviceDuration, dayEnd)
  THEN IF IsPast(cursor, now)
       THEN SlotLoop(cursor + SlotStep, dayEnd, serviceDuration, busy, now, slots)
       ELSE IF ~IsBusy(cursor, cursor + serviceDuration, busy)
            THEN SlotLoop(cursor + SlotStep, dayEnd, serviceDuration, busy, now,
                          Append(slots, [timeStr |-> FormatHHmm(cursor),
                                         start |-> cursor,
                                         end |-> cursor + serviceDuration]))
            ELSE SlotLoop(cursor + SlotStep, dayEnd, serviceDuration, busy, now, slots)
  ELSE slots

buildSlotsForDay(dateStr, serviceDuration, workday, schedule, appointments, now) ==
  LET bounds == DayBounds(dateStr, workday)
  IN IF bounds = <<>>
     THEN <<>>
     ELSE SlotLoop(bounds[1], bounds[2], serviceDuration,
                   BusyIntervals(dateStr, workday, schedule, appointments), now, <<>>)

(***************************************************************************)
(* Inputs of the slot generator: one date, and work days, durations,       *)
(* instants of "now", blocked rows and appointment rows from small pools.  *)
(***************************************************************************)
GenDate == 1

GenWorkdays ==
  { NullWorkday,
    Workday(NoHour, NoHour, <<9, 0>>, <<17, 0>>, EmptyStr, EmptyStr),
    Workday(NoHour, NoHour, <<9, 0>>, <<17, 0>>, <<13, 0>>, <<14, 0>>),
    Workday(NoHour, NoHour, <<9, 0>>, <<17, 0>>, <<14, 0>>, <<13, 0>>),
    Workday(NoHour, NoHour, <<9, 0>>, <<17, 0>>, <<13, 0>>, <<13, 0>>),
    Workday(NoHour, NoHour, <<9, 0>>, <<17, 0>>, <<13, 0>>, EmptyStr),
    Workday(NoHour, NoHour, <<9, 0>>, <<17, 0>>, EmptyStr, <<14, 0>>),
    Workday(NoHour, NoHour, <<9, 0>>, <<10, 30>>, EmptyStr, EmptyStr),
    Workday(NoHour, NoHour, <<9, 0>>, <<11, 0>>, <<9, 45>>, <<10, 0>>),
    Workday(NoHour, NoHour, <<9, 10>>, <<10, 40>>, EmptyStr, EmptyStr),
    Workday(NoHour, NoHour, <<9, 0>>, EmptyStr, EmptyStr, EmptyStr),
    Workday(NoHour, NoHour, <<11, 0>>, <<9, 0>>, EmptyStr, EmptyStr),
    Workday(9, 11, EmptyStr, EmptyStr, EmptyStr, EmptyStr) }

GenDurations == {20, 30, 60}

GenNows ==
  { 0,
    ToInstant(GenDate, <<8, 0>>),
    ToInstant(GenDate, <<9, 0>>),
    ToInstant(GenDate, <<9, 1>>),
    ToInstant(GenDate, <<9, 30>>),
    ToInstant(GenDate, <<16, 0>>),
    ToInstant(GenDate + 1, <<0, 0>>) }

ScheduleRow(timeStart, timeEnd, status) ==
  [date |-> GenDate, timeStart |-> timeStart, timeEnd |-> timeEnd, status |-> status]

GenSchedulePool ==
  << ScheduleRow(<<9, 30>>, <<10, 0>>, BLOCKED),
     ScheduleRow(<<15, 0>>, <<16, 0>>, BLOCKED),
     ScheduleRow(<<9, 0>>, <<17, 0>>, "") >>

GenAppointmentPool ==
  << ScheduleRow(<<9, 0>>, <<9, 30>>, ACTIVE),
     ScheduleRow(<<10, 0>>, <<10, 20>>, ACTIVE),
     ScheduleRow(<<9, 0>>, <<10, 30>>, CANCELLED),
     ScheduleRow(<<12, 0>>, <<13, 0>>, COMPLETED) >>

\* the rows of pool whose index is in keep, in the order of the pool
RECURSIVE PickRows(_, _, _)
PickRows(pool, keep, i) ==
  IF i > Len(pool) THEN <<>>
  ELSE IF i \in keep THEN <<pool[i]>> \o PickRows(pool, keep, i + 1)
       ELSE PickRows(pool, keep, i + 1)

GenInputs ==
  { [workday |-> w, duration |-> d, now |-> n,
     schedule |-> PickRows(GenSchedulePool, ks, 1),
     appointments |-> PickRows(GenAppointmentPool, ka, 1)] :
      w \in GenWorkdays, d \in GenDurations, n \in GenNows,
      ks \in SUBSET (1..Len(GenSchedulePool)),
      ka \in SUBSET (1..Len(GenAppointmentPool)) }

NotGenerated == [done |-> FALSE, slots |-> <<>>]

GenInit ==
  /\ gIn \in GenInputs
  /\ gOut = NotGenerated

\* one evaluation of buildSlotsForDay on the drawn inputs
GenerateSlots ==
  /\ ~gOut.done
  /\ gOut' = [done |-> TRUE,
              slots |-> buildSlotsForDay(GenDate, gIn.duration, gIn.workday,
                                         gIn.schedule, gIn.appointments, gIn.now)]
  /\ UNCHANGED gIn

(***************************************************************************)
(* Engine configuration: services, work hours, blocked rows, ban list      *)
(***************************************************************************)
Services == [BEARD |-> 30, MEN_HAIRCUT |-> 60]

NullService == [isNull |-> TRUE]

\* an unknown key resolves to a service of 30 minutes
getServiceByKeyOrDefault(key) ==
  IF key \in DOMAIN Services
  THEN [isNull |-> FALSE, key |-> key, durationMin |-> Services[key]]
  ELSE [isNull |-> FALSE, key |-> key, durationMin |-> 30]

getServiceByKey(key) ==
  IF key \in DOMAIN Services
  THEN [isNull |-> FALSE, key |-> key, durationMin |-> Services[key]]
  ELSE NullService

Dates == {1, 2}

Owners == {1, 2, 3}

BannedOwners == {3}

getUserBanStatus(telegramId) == [banned |-> telegramId \in BannedOwners]

\* workHoursCache.byDate and workHoursCache.byWeekday as fetchWorkHours fills them
WorkHoursByDate ==
  1 :> [start |-> <<9, 0>>, end |-> <<11, 30>>, lunchStart |-> EmptyStr, lunchEnd |-> EmptyStr]

WorkHoursByWeekday == [wk \in {} |-> EmptyStr]

Weekday(date) == date % 7

\* a date without work hours falls back to 09:00-17:00
getWorkHoursOrDefault(dateStr) ==
  IF dateStr \in DOMAIN WorkHoursByDate
       /\ WorkHoursByDate[dateStr].start # EmptyStr /\ WorkHoursByDate[dateStr].end # EmptyStr
  THEN Workday(NoHour, NoHour, WorkHoursByDate[dateStr].start, WorkHoursByDate[dateStr].end,
               WorkHoursByDate[dateStr].lunchStart, WorkHoursByDate[dateStr].lunchEnd)
  ELSE Workday(NoHour, NoHour, <<9, 0>>, <<17, 0>>, EmptyStr, EmptyStr)

\* a date entry without start or end falls through to the weekday entry
resolveWorkHoursFallThrough(byDate, byWeekday, dateStr) ==
  IF dateStr \in DOMAIN byDate
       /\ byDate[dateStr].start # EmptyStr /\ byDate[dateStr].end # EmptyStr
  THEN LET v == byDate[dateStr]
       IN Workday(NoHour, NoHour, v.start, v.end, v.lunchStart, v.lunchEnd)
  ELSE IF Weekday(dateStr) \in DOMAIN byWeekday
       THEN LET v == byWeekday[Weekday(dateStr)]
            IN IF v.start # EmptyStr /\ v.end # EmptyStr
               THEN Workday(NoHour, NoHour, v.start, v.end, v.lunchStart, v.lunchEnd)
               ELSE NullWorkday
       ELSE NullWorkday

\* the body of getWorkHoursForDate on the two tables of workHoursCache
resolveWorkHours(byDate, byWeekday, dateStr) ==
  IF dateStr \in DOMAIN byDate
  THEN LET v == byDate[dateStr]
       IN IF v.start # EmptyStr /\ v.end # EmptyStr
          THEN Workday(NoHour, NoHour, v.start, v.end, v.lunchStart, v.lunchEnd)
          ELSE NullWorkday
  ELSE IF Weekday(dateStr) \in DOMAIN byWeekday
       THEN LET v == byWeekday[Weekday(dateStr)]
            IN IF v.start # EmptyStr /\ v.end # EmptyStr
               THEN Workday(NoHour, NoHour, v.start, v.end, v.lunchStart, v.lunchEnd)
               ELSE NullWorkday
       ELSE NullWorkday

getWorkHoursForDate(dateStr) == resolveWorkHours(WorkHoursByDate, WorkHoursByWeekday, dateStr)

\* the sheet of blocked intervals
ScheduleSheet ==
  << [date |-> 1, timeStart |-> <<9, 0>>, timeEnd |-> <<9, 30>>, status |-> BLOCKED] >>

(***************************************************************************)
(* The appointments sheet and the per-day cache (sheets service)           *)
(***************************************************************************)
NoStamp == -1

AppointmentRow(id, createdAtUtc, date, timeStart, timeEnd, telegramId) ==
  [id |-> id, createdAtUtc |-> createdAtUtc, date |-> date,
   timeStart |-> timeStart, timeEnd |-> timeEnd, telegramId |-> telegramId,
   status |-> ACTIVE, cancelCode |-> 100 + id,
   completedAtUtc |-> NoStamp, cancelledAtUtc |-> NoStamp]

getAppointmentsByDate(dateStr) ==
  SelectSeq(rows, LAMBDA r : r.date = dateStr /\ r.status = ACTIVE)

\* index of the last row with this id, 0 when there is none (forEach keeps the last match)
RowIndexOf(id) ==
  LET hits == {i \in 1..Len(rows) : rows[i].id = id}
  IN IF hits = {} THEN 0 ELSE CHOOSE i \in hits : \A j \in hits : j <= i

NullAppointment == [isNull |-> TRUE]

FoundAppointment(r) ==
  [isNull |-> FALSE, id |-> r.id, date |-> r.date, telegramId |-> r.telegramId,
   status |-> r.status]

\* sheetRows.find(...): the first row among hits, null when there is none
FirstOf(sheetRows, hits) ==
  IF hits = {} THEN NullAppointment
  ELSE FoundAppointment(sheetRows[CHOOSE i \in hits : \A j \in hits : i <= j])

\* first row with this id, in the active sheet and then in the archive
getAppointmentById(id) ==
  LET found == FirstOf(rows, {i \in 1..Len(rows) : rows[i].id = id})
  IN IF ~found.isNull THEN found
     ELSE FirstOf(archive, {i \in 1..Len(archive) : archive[i].id = id})

\* only Active appointments are looked up by code
getActiveByCancelCode(cancelCode) ==
  FirstOf(rows, {i \in 1..Len(rows) :
                   rows[i].cancelCode = cancelCode /\ rows[i].status = ACTIVE})

\* first row with this cancel code, in the active sheet and then in the archive
getAppointmentByCancelCode(cancelCode) ==
  LET found == FirstOf(rows, {i \in 1..Len(rows) : rows[i].cancelCode = cancelCode})
  IN IF ~found.isNull THEN found
     ELSE FirstOf(archive, {i \in 1..Len(archive) : archive[i].cancelCode = cancelCode})

NoEntry == [isNull |-> TRUE]

CacheTtl == 30

\* what getDaySchedule reads from the two sheets on a cache miss
ReadDaySchedule(dateStr) ==
  [schedule |-> SelectSeq(ScheduleSheet, LAMBDA r : r.date = dateStr),
   appointments |-> SelectSeq(rows, LAMBDA r :
                      r.date = dateStr /\ r.status # CANCELLED /\ r.status # COMPLETED)]

CacheHit(dateStr) ==
  ~dayCache[dateStr].isNull /\ dayCache[dateStr].expiresAt > clock

\* the value getDaySchedule(dateStr) returns
getDaySchedule(dateStr) ==
  IF CacheHit(dateStr)
  THEN [schedule |-> dayCache[dateStr].schedule,
        appointments |-> dayCache[dateStr].appointments]
  ELSE ReadDaySchedule(dateStr)

\* the cache after getDaySchedule(dateStr)
CacheAfterGet(dateStr) ==
  IF CacheHit(dateStr)
  THEN dayCache
  ELSE LET d == ReadDaySchedule(dateStr)
       IN [dayCache EXCEPT ![dateStr] =
             [isNull |-> FALSE, schedule |-> d.schedule,
              appointments |-> d.appointments, expiresAt |-> clock + CacheTtl]]

\* a write leaves the day's cache entry in place
keepDayCache(cache, dateStr) == cache

\* a write drops the entries of all dates
clearDayCache(cache, dateStr) == [d \in DOMAIN cache |-> NoEntry]

\* dayCache.delete(dateStr)
invalidateDayCache(cache, dateStr) ==
  IF dateStr \in DOMAIN cache THEN [cache EXCEPT ![dateStr] = NoEntry] ELSE cache

\* only the status is written, no stamp
RowAfterUpdateUnstamped(row, status, stamp) == [row EXCEPT !.status = status]

\* rowValues after updateAppointmentStatus set the status and its stamp
RowAfterUpdate(row, status, stamp) ==
  [row EXCEPT !.status = status,
              !.cancelledAtUtc = IF status = CANCELLED /\ stamp # NoStamp THEN stamp ELSE @,
              !.completedAtUtc = IF status = COMPLETED /\ stamp # NoStamp THEN stamp ELSE @]

\* the sheet after updateAppointmentStatus(id, status, stamps) found the row
RowsAfterUpdate(id, status, stamp) ==
  [rows EXCEPT ![RowIndexOf(id)] = RowAfterUpdate(@, status, stamp)]

\* index of the last archived row with this id, 0 when there is none
ArchiveIndexOf(id) ==
  LET hits == {i \in 1..Len(archive) : archive[i].id = id}
  IN IF hits = {} THEN 0 ELSE CHOOSE i \in hits : \A j \in hits : j <= i

NoClient == [isNull |-> TRUE]

\* the clients sheet after upsertClient({telegramId, lastAppointmentAtUtc})
upsertClient(sheet, telegramId, lastAppointmentAtUtc) ==
  IF sheet[telegramId].isNull
  THEN [sheet EXCEPT ![telegramId] =
          [isNull |-> FALSE, lastAppointmentAtUtc |-> lastAppointmentAtUtc, total |-> 1]]
  ELSE [sheet EXCEPT ![telegramId] =
          [@ EXCEPT !.lastAppointmentAtUtc =
                       IF lastAppointmentAtUtc # NoStamp THEN lastAppointmentAtUtc ELSE @,
                    !.total = @ + 1]]

\* the clients sheet after a status update of row: a completion refreshes the owner
ClientsAfterUpdate(row, status, stamp) ==
  IF status = COMPLETED /\ stamp # NoStamp /\ row.telegramId \in DOMAIN clients
  THEN upsertClient(clients, row.telegramId, stamp)
  ELSE clients

\* updateAppointmentStatus finds the row: in the active sheet, else in the archive
\* when the archive can be read
UpdateFinds(id, archiveFails) ==
  RowIndexOf(id) # 0 \/ (~archiveFails /\ ArchiveIndexOf(id) # 0)

\* updateAppointmentStatus(id, status, stamps): the row of the sheet that holds the
\* id is rewritten, the owner's client row on a completion, the day's cache entry
\* is dropped; nothing changes when the row is not found
updateAppointmentStatus(id, status, stamp, archiveFails) ==
  IF RowIndexOf(id) # 0
  THEN /\ rows' = RowsAfterUpdate(id, status, stamp)
       /\ clients' = ClientsAfterUpdate(rows[RowIndexOf(id)], status, stamp)
       /\ dayCache' = invalidateDayCache(dayCache, rows[RowIndexOf(id)].date)
       /\ UNCHANGED archive
  ELSE IF ~archiveFails /\ ArchiveIndexOf(id) # 0
       THEN /\ archive' = [archive EXCEPT ![ArchiveIndexOf(id)] =
                              RowAfterUpdate(@, status, stamp)]
            /\ clients' = ClientsAfterUpdate(archive[ArchiveIndexOf(id)], status, stamp)
            /\ dayCache' = invalidateDayCache(dayCache, archive[ArchiveIndexOf(id)].date)
            /\ UNCHANGED rows
       ELSE UNCHANGED <<rows, archive, clients, dayCache>>

(***************************************************************************)
(* Processes: book() calls and cancel calls, each run once                 *)
(***************************************************************************)
NumProcs == 2

NumCancels == 1

Procs == 1..NumProcs

Cancellers == 1..NumCancels

\* the calls of the runs with a chain of three bookings and with two cancel calls
\* at once; the other runs leave the third call and the second canceller idle
NumChainProcs == 3

ChainProcs == 1..NumChainProcs

NumRaceCancels == 2

RaceCancellers == 1..NumRaceCancels

QuotaLimit == 3

\* rows present before the first call: k appointments of owner 1, back to back
PreRows(k) ==
  [i \in 1..k |->
     AppointmentRow(i, 0, 1, FormatHHmm(ToInstant(1, <<9, 0>>) + 30 * i),
                    FormatHHmm(ToInstant(1, <<9, 30>>) + 30 * i), 1)]

\* generateId("A"): the id of the appointment that call p creates
IdOf(p) == QuotaLimit + p

Request(serviceKey, date, timeStr, owner) ==
  [serviceKey |-> serviceKey, dateStr |-> date, timeStr |-> timeStr, telegramId |-> owner]

BookRequests ==
  { Request("BEARD", 1, <<10, 30>>, 1),
    Request("BEARD", 1, <<11, 0>>, 1),
    Request("BEARD", 1, <<10, 30>>, 2),
    Request("MEN_HAIRCUT", 1, <<10, 30>>, 2),
    Request("BEARD", 2, <<10, 30>>, 2),
    Request("MEN_HAIRCUT", 2, <<23, 0>>, 1),
    Request("BEARD", 1, <<11, 0>>, 3),
    Request("BEARD", 2, <<11, 0>>, 3) }

\* the cancel calls: kind, appointment id, caller identity
CancelRequests ==
  { <<"owner", 1, 1>>, <<"owner", 1, 2>>, <<"code", 1, 0>>,
    <<"owner", QuotaLimit + 1, 1>>, <<"owner", QuotaLimit + 1, 2>>,
    <<"code", QuotaLimit + 1, 0>>,
    <<"owner", QuotaLimit + 2, 2>>, <<"code", QuotaLimit + 2, 0>> }

ListRequests ==
  { <<"BEARD", 1>>, <<"MEN_HAIRCUT", 1>>, <<"BEARD", 2>>, <<"MEN_HAIRCUT", 2>> }

NoRequest == Request("", 0, EmptyStr, 0)

ClockValues == {ToInstant(1, <<8, 45>>), ToInstant(1, <<10, 45>>)}

IdleProc ==
  [pc |-> "idle", req |-> NoRequest, createdAtUtc |-> NoStamp, stamp |-> NoStamp,
   seen |-> {}, fault |-> "none", result |-> "none"]

NotListed == [done |-> FALSE, serviceKey |-> "", dateStr |-> 0, slots |-> <<>>, threw |-> FALSE]

\* the call that a canceller made before its current one
NoPrior == [kind |-> "none", id |-> 0, caller |-> 0, result |-> "none"]

IdleCancel ==
  [pc |-> "idle", kind |-> "none", id |-> 0, caller |-> 0, stamp |-> NoStamp,
   result |-> "none", prior |-> NoPrior]

\* the completion sweep at rest: cronLocks.autoComplete is false
IdleSweep ==
  [pc |-> "idle", lock |-> FALSE, now |-> NoStamp, queue |-> <<>>, updates |-> 0,
   before |-> <<>>, after |-> <<>>, repeat |-> FALSE, runs |-> 0,
   skipped |-> 0, faults |-> 0]

\* no getDaySchedule call of the cache's own clients is under way
IdleReader ==
  [pc |-> "idle", dateStr |-> 0, fresh |-> FALSE, now |-> NoStamp,
   hit |-> FALSE, held |-> NoEntry, read |-> NoEntry, result |-> NoEntry, calls |-> 0]

\* no updateAppointmentStatus call is between its read and its write
IdleUpdater ==
  [pc |-> "idle", id |-> 0, status |-> "", sheet |-> "", index |-> 0,
   rowValues |-> NullAppointment, before |-> <<>>, found |-> FALSE, calls |-> 0]

\* no archiveOldAppointments run is under way
IdleArchiver ==
  [pc |-> "idle", toArchive |-> <<>>, rowIndicesToDelete |-> {}, runs |-> 0]

\* the rate limiter at the start: userRequests is empty, Date.now() is 0; log lists
\* the checkRateLimit calls made so far, evicted the users whose entry the size
\* limit of the map removed
NoLimits == [userRequests |-> <<>>, now |-> 0, log |-> <<>>, evicted |-> {}, calls |-> 0]

\* the clients sheet that goes with k appointments of owner 1
PreClients(k) ==
  [o \in Owners |->
     IF o = 1 /\ k > 0
     THEN [isNull |-> FALSE, lastAppointmentAtUtc |-> 0, total |-> k]
     ELSE NoClient]

EngInit ==
  /\ clock = ToInstant(1, <<8, 45>>)
  /\ \E k \in 0..QuotaLimit : rows = PreRows(k) /\ clients = PreClients(k)
  /\ dayCache = [d \in Dates |-> NoEntry]
  /\ procs = [p \in ChainProcs |-> IdleProc]
  /\ cancels = [c \in RaceCancellers |-> IdleCancel]
  /\ listed = NotListed
  /\ archive = <<>>
  /\ sweep = IdleSweep
  /\ reader = IdleReader
  /\ updater = IdleUpdater
  /\ archiver = IdleArchiver
  /\ limiter = NoLimits

ReqStart(req) == ToInstant(req.dateStr, req.timeStr)

ReqEnd(req) == ReqStart(req) + getServiceByKey(req.serviceKey).durationMin

\* isSlotFree({dateStr, timeStr, service}) on the day schedule getDaySchedule returns
isSlotFree(dateStr, timeStr, service) ==
  LET day == getDaySchedule(dateStr)
      workHours == getWorkHoursForDate(dateStr)
  IN IF workHours.isNull
     THEN FALSE
     ELSE LET slots == buildSlotsForDay(dateStr, service.durationMin, workHours,
                                        day.schedule, day.appointments, clock)
          IN \E i \in 1..Len(slots) : slots[i].timeStr = timeStr

\* a call to the sheets service may fail; a run suffers at most one such failure
FailChoices == IF \A p \in Procs : procs[p].fault = "none" THEN BOOLEAN ELSE {FALSE}

Finish(p, result, fault) ==
  [procs EXCEPT ![p].pc = "done", ![p].result = result, ![p].fault = fault]

\* the work hours are looked up before the ban status
BookValidateHoursFirst(p, req, banFails) ==
  /\ procs[p].pc = "idle"
  /\ listed' = NotListed
  /\ LET service == getServiceByKey(req.serviceKey)
         started == [procs EXCEPT ![p].req = req]
         fault == IF banFails THEN "ban" ELSE "none"
     IN IF service.isNull
        THEN /\ procs' = [started EXCEPT ![p].pc = "done", ![p].result = "throw"]
             /\ UNCHANGED dayCache
        ELSE IF getWorkHoursForDate(req.dateStr).isNull
             THEN /\ procs' = [started EXCEPT ![p].pc = "done", ![p].result = "closed"]
                  /\ UNCHANGED dayCache
             ELSE IF ~banFails /\ getUserBanStatus(req.telegramId).banned
                  THEN /\ procs' = [started EXCEPT ![p].pc = "done",
                                                   ![p].result = "banned"]
                       /\ UNCHANGED dayCache
                  ELSE /\ dayCache' = CacheAfterGet(req.dateStr)
                       /\ IF isSlotFree(req.dateStr, req.timeStr, service)
                          THEN procs' = [started EXCEPT ![p].pc = "quota",
                                                        ![p].fault = fault]
                          ELSE procs' = [started EXCEPT ![p].pc = "done",
                                                        ![p].result = "slot_taken",
                                                        ![p].fault = fault]
  /\ UNCHANGED <<clock, rows, cancels, archive, clients, sweep>>

\* bookAppointment up to the slot re-validation: service lookup, ban check,
\* work hours, isSlotFree
BookValidate(p, req, banFails) ==
  /\ procs[p].pc = "idle"
  /\ listed' = NotListed
  /\ LET service == getServiceByKey(req.serviceKey)
         started == [procs EXCEPT ![p].req = req]
     IN IF service.isNull
        THEN /\ procs' = [started EXCEPT ![p].pc = "done", ![p].result = "throw"]
             /\ UNCHANGED dayCache
        ELSE LET fault == IF banFails THEN "ban" ELSE "none"
               IN IF ~banFails /\ getUserBanStatus(req.telegramId).banned
                  THEN /\ procs' = [started EXCEPT ![p].pc = "done", ![p].result = "banned"]
                       /\ UNCHANGED dayCache
                  ELSE IF getWorkHoursForDate(req.dateStr).isNull
                       THEN /\ procs' = [started EXCEPT ![p].pc = "done",
                                                        ![p].result = "closed",
                                                        ![p].fault = fault]
                            /\ UNCHANGED dayCache
                       ELSE /\ dayCache' = CacheAfterGet(req.dateStr)
                            /\ IF isSlotFree(req.dateStr, req.timeStr, service)
                               THEN procs' = [started EXCEPT ![p].pc = "quota",
                                                             ![p].fault = fault]
                               ELSE procs' = [started EXCEPT ![p].pc = "done",
                                                             ![p].result = "slot_taken",
                                                             ![p].fault = fault]
  /\ UNCHANGED <<clock, rows, cancels, archive, clients, sweep>>

\* number of the owner's active appointments among the day's rows
sameUserCount(dayAppointments, telegramId) ==
  Cardinality({i \in 1..Len(dayAppointments) : dayAppointments[i].telegramId = telegramId})

\* the limit is one appointment too high
QuotaExceededOver(dateStr, telegramId) ==
  sameUserCount(getAppointmentsByDate(dateStr), telegramId) > QuotaLimit

QuotaExceeded(dateStr, telegramId) ==
  sameUserCount(getAppointmentsByDate(dateStr), telegramId) >= QuotaLimit

\* the anti-spam check comes after the appointment and the client row are written
BookQuotaAfterWrite(p, readFails) ==
  /\ procs[p].pc = "quota"
  /\ IF ~readFails /\ QuotaExceeded(procs[p].req.dateStr, procs[p].req.telegramId)
     THEN /\ procs' = Finish(p, "limit_exceeded", procs[p].fault)
          /\ clients' = upsertClient(clients, procs[p].req.telegramId, clock)
     ELSE /\ procs' = [procs EXCEPT ![p].pc = "append", ![p].createdAtUtc = clock,
                                    ![p].fault = IF readFails THEN "quota" ELSE @]
          /\ UNCHANGED clients
  /\ UNCHANGED <<clock, rows, dayCache, cancels, listed, archive, sweep>>

\* a failed read of the day's appointments rejects the booking
BookQuotaFailClosed(p, readFails) ==
  /\ procs[p].pc = "quota"
  /\ IF readFails \/ QuotaExceeded(procs[p].req.dateStr, procs[p].req.telegramId)
     THEN procs' = Finish(p, "limit_exceeded", IF readFails THEN "quota" ELSE procs[p].fault)
     ELSE procs' = [procs EXCEPT ![p].pc = "append", ![p].createdAtUtc = clock]
  /\ UNCHANGED <<clock, rows, dayCache, cancels, listed, archive, clients, sweep>>

\* the anti-spam check, then the appointment object is built (createdAtUtc is taken)
\* and the append request is sent
BookQuota(p, readFails) ==
  /\ procs[p].pc = "quota"
  /\ IF ~readFails /\ QuotaExceeded(procs[p].req.dateStr, procs[p].req.telegramId)
     THEN procs' = Finish(p, "limit_exceeded", procs[p].fault)
     ELSE procs' = [procs EXCEPT ![p].pc = "append", ![p].createdAtUtc = clock,
                                 ![p].fault = IF readFails THEN "quota" ELSE @]
  /\ UNCHANGED <<clock, rows, dayCache, cancels, listed, archive, clients, sweep>>

\* appendAppointment reaches the sheet and the day's cache entry is dropped; then
\* upsertClient creates or updates the owner's client row
BookAppend(p) ==
  /\ procs[p].pc = "append"
  /\ LET req == procs[p].req
     IN /\ rows' = Append(rows, AppointmentRow(IdOf(p), procs[p].createdAtUtc, req.dateStr,
                                               FormatHHmm(ReqStart(req)),
                                               FormatHHmm(ReqEnd(req)), req.telegramId))
        /\ dayCache' = invalidateDayCache(dayCache, req.dateStr)
        /\ clients' = upsertClient(clients, req.telegramId, procs[p].createdAtUtc)
  /\ procs' = [procs EXCEPT ![p].pc = "readback"]
  /\ UNCHANGED <<clock, cancels, listed, archive, sweep>>

\* the sort comparator of the race check: createdAtUtc, then id
SortsBefore(x, y) ==
  IF x.createdAtUtc = y.createdAtUtc THEN x.id < y.id ELSE x.createdAtUtc < y.createdAtUtc

\* rows of the day's active appointments that overlap [start, end)
Overlapping(dayAppointments, start, end) ==
  {dayAppointments[i] : i \in
     {j \in 1..Len(dayAppointments) :
        intervalsOverlap(start, end, RowInterval(dayAppointments[j]).start,
                         RowInterval(dayAppointments[j]).end)}}

\* overlapping[0] after the sort
Winner(overlapping) ==
  CHOOSE x \in overlapping : \A y \in overlapping \ {x} : SortsBefore(x, y)

\* the failure of the post-commit read is not caught
BookReadbackUncaught(p, readFails) ==
  /\ procs[p].pc = "readback"
  /\ IF readFails
     THEN procs' = Finish(p, "throw", "readback")
     ELSE LET req == procs[p].req
              overlapping == Overlapping(getAppointmentsByDate(req.dateStr),
                                         ReqStart(req), ReqEnd(req))
              seen == {x.id : x \in overlapping}
          IN IF Cardinality(overlapping) > 1 /\ Winner(overlapping).id # IdOf(p)
             THEN procs' = [procs EXCEPT ![p].pc = "cancel", ![p].seen = seen,
                                         ![p].stamp = clock]
             ELSE procs' = [procs EXCEPT ![p].pc = "done", ![p].seen = seen,
                                         ![p].result = "ok"]
  /\ UNCHANGED <<clock, rows, dayCache, cancels, listed, archive, clients, sweep>>

\* the post-commit read of the day's active appointments and its verdict
BookReadback(p, readFails) ==
  /\ procs[p].pc = "readback"
  /\ IF readFails
     THEN procs' = Finish(p, "ok", "readback")
     ELSE LET req == procs[p].req
              overlapping == Overlapping(getAppointmentsByDate(req.dateStr),
                                         ReqStart(req), ReqEnd(req))
              seen == {x.id : x \in overlapping}
          IN IF Cardinality(overlapping) > 1 /\ Winner(overlapping).id # IdOf(p)
             THEN procs' = [procs EXCEPT ![p].pc = "cancel", ![p].seen = seen,
                                         ![p].stamp = clock]
             ELSE procs' = [procs EXCEPT ![p].pc = "done", ![p].seen = seen,
                                         ![p].result = "ok"]
  /\ UNCHANGED <<clock, rows, dayCache, cancels, listed, archive, clients, sweep>>

\* the loser cancels its own appointment: updateAppointmentStatus(id, CANCELLED)
BookCancelSelf(p, updateFails) ==
  /\ procs[p].pc = "cancel"
  /\ IF updateFails
     THEN /\ procs' = Finish(p, "ok", "update")
          /\ UNCHANGED <<rows, archive, clients, dayCache>>
     ELSE /\ procs' = Finish(p, "slot_taken", procs[p].fault)
          /\ updateAppointmentStatus(IdOf(p), CANCELLED, procs[p].stamp, FALSE)
  /\ UNCHANGED <<clock, cancels, listed, sweep>>

(***************************************************************************)
(* Cancellation by the owner and by cancel code                            *)
(***************************************************************************)
\* cancelAppointment(id, telegramId) / cancelAppointmentByCode(cancelCode) up to
\* the status update; calls is the canceller table the call starts from
CancelLookup(c, kind, id, caller, calls) ==
  /\ listed' = NotListed
  /\ LET appointment == IF kind = "owner" THEN getAppointmentById(id)
                        ELSE getAppointmentByCancelCode(100 + id)
         started == [calls EXCEPT ![c].kind = kind, ![c].id = id, ![c].caller = caller]
     IN IF appointment.isNull
        THEN cancels' = [started EXCEPT ![c].pc = "done", ![c].result = "appointment_not_found"]
        ELSE IF kind = "owner" /\ appointment.telegramId # caller
             THEN cancels' = [started EXCEPT ![c].pc = "done", ![c].result = "not_owner"]
             ELSE IF appointment.status # ACTIVE
                  THEN cancels' = [started EXCEPT ![c].pc = "done",
                                                  ![c].result = "already_cancelled"]
                  ELSE cancels' = [started EXCEPT ![c].pc = "update", ![c].stamp = clock]
  /\ UNCHANGED <<clock, rows, dayCache, procs, archive, clients, sweep>>

\* the first cancel call of canceller c
CancelStart(c, kind, id, caller) ==
  /\ cancels[c].pc = "idle"
  /\ \A d \in Cancellers : d < c => cancels[d].pc # "idle"
  /\ CancelLookup(c, kind, id, caller, cancels)

\* a second cancel call of canceller c, after its first one has returned
CancelAgain(c, kind, id, caller) ==
  /\ cancels[c].pc = "done"
  /\ cancels[c].prior = NoPrior
  /\ CancelLookup(c, kind, id, caller,
                  [cancels EXCEPT ![c] =
                     [IdleCancel EXCEPT !.prior =
                        [kind |-> cancels[c].kind, id |-> cancels[c].id,
                         caller |-> cancels[c].caller, result |-> cancels[c].result]]])

\* a status update that found no row is reported under a reason of its own kind
CancelResultUntyped(success) == IF success THEN "ok" ELSE "error"

\* the result of a cancel call after the status update returned success
CancelResult(success) == IF success THEN "ok" ELSE "update_failed"

\* updateAppointmentStatus(id, CANCELLED, {cancelledAtUtc}) and the result
CancelUpdate(c, archiveFails) ==
  /\ cancels[c].pc = "update"
  /\ updateAppointmentStatus(cancels[c].id, CANCELLED, cancels[c].stamp, archiveFails)
  /\ cancels' = [cancels EXCEPT
                   ![c].pc = "done",
                   ![c].result = CancelResult(UpdateFinds(cancels[c].id, archiveFails))]
  /\ UNCHANGED <<clock, procs, listed, sweep>>

\* getAvailableSlotsForService(serviceKey, dateStr)
ListSlots(serviceKey, dateStr) ==
  /\ LET service == getServiceByKey(serviceKey)
         workHours == getWorkHoursForDate(dateStr)
         day == getDaySchedule(dateStr)
     IN IF service.isNull
        THEN /\ listed' = [done |-> TRUE, serviceKey |-> serviceKey, dateStr |-> dateStr,
                           slots |-> <<>>, threw |-> TRUE]
             /\ UNCHANGED dayCache
        ELSE /\ dayCache' = CacheAfterGet(dateStr)
             /\ listed' = [done |-> TRUE, serviceKey |-> serviceKey, dateStr |-> dateStr,
                           slots |-> IF workHours.isNull
                                     THEN <<>>
                                     ELSE buildSlotsForDay(dateStr, service.durationMin,
                                                           workHours, day.schedule,
                                                           day.appointments, clock),
                           threw |-> FALSE]
  /\ UNCHANGED <<clock, rows, procs, cancels, archive, clients, sweep>>

\* time passes
Tick ==
  /\ \E t \in ClockValues : t > clock /\ clock' = t
  /\ UNCHANGED <<rows, dayCache, procs, cancels, listed, archive, clients, sweep>>

(***************************************************************************)
(* The completion sweep (the auto-complete cron job of setupReminders)     *)
(***************************************************************************)
\* every row is returned, whatever its status
getAllStoredAppointments == rows

\* getAllActiveAppointments(): the active rows of the appointments sheet
getAllActiveAppointments == SelectSeq(rows, LAMBDA r : r.status = ACTIVE)

\* every appointment counts as over
IsExpiredAlways(endTime, nowTz) == TRUE

\* endTime.isBefore(nowTz) || endTime.isSame(nowTz)
IsExpired(endTime, nowTz) == endTime <= nowTz

\* the job fires: it takes the lock, reads now and the active appointments.
\* before is the sheets at the start of the run, after the sheets the last finished
\* run left, repeat whether this run starts from them at the same now.
\* runs of the sweep in one behaviour
MaxSweeps == 2

\* ticks that find the lock taken, in one behaviour
MaxSkips == 1

SweepStart(readFails) ==
  /\ ~sweep.lock
  /\ sweep.runs < MaxSweeps
  /\ sweep' = [sweep EXCEPT !.pc = "run", !.lock = TRUE, !.now = clock,
                            !.queue = IF readFails THEN <<>> ELSE getAllActiveAppointments,
                            !.faults = IF readFails THEN @ + 1 ELSE @,
                            !.updates = 0, !.runs = @ + 1,
                            !.before = <<rows, clients>>,
                            !.repeat = sweep.pc = "done" /\ sweep.now = clock
                                         /\ sweep.after = <<rows, clients>>]
  /\ UNCHANGED <<clock, rows, dayCache, procs, cancels, listed, archive, clients>>

\* the job fires while the lock is taken: if (cronLocks.autoComplete) return
SweepSkip ==
  /\ sweep.lock
  /\ sweep.skipped < MaxSkips
  /\ sweep' = [sweep EXCEPT !.skipped = @ + 1]
  /\ UNCHANGED <<clock, rows, dayCache, procs, cancels, listed, archive, clients>>

\* one turn of the loop over the appointments read at the start; a failed status
\* update is caught and counted, and the loop goes on
SweepStep(updateFails) ==
  /\ sweep.pc = "run"
  /\ sweep.queue # <<>>
  /\ LET app == Head(sweep.queue)
     IN IF IsExpired(ToInstant(app.date, app.timeEnd), sweep.now)
        THEN IF updateFails
             THEN /\ sweep' = [sweep EXCEPT !.queue = Tail(@), !.faults = @ + 1]
                  /\ UNCHANGED <<rows, archive, clients, dayCache>>
             ELSE /\ updateAppointmentStatus(app.id, COMPLETED, clock, FALSE)
                  /\ sweep' = [sweep EXCEPT !.queue = Tail(@),
                                            !.updates = IF UpdateFinds(app.id, FALSE)
                                                        THEN @ + 1 ELSE @]
        ELSE /\ ~updateFails
             /\ sweep' = [sweep EXCEPT !.queue = Tail(@)]
             /\ UNCHANGED <<rows, archive, clients, dayCache>>
  /\ UNCHANGED <<clock, procs, cancels, listed>>

\* the lock is released only when no store call of the run failed
SweepEndUnlessFailed ==
  /\ sweep.pc = "run"
  /\ sweep.queue = <<>>
  /\ sweep' = [sweep EXCEPT !.pc = "done", !.lock = sweep.faults > 0,
                            !.after = <<rows, clients>>]
  /\ UNCHANGED <<clock, rows, dayCache, procs, cancels, listed, archive, clients>>

\* the loop is over or the read failed: finally releases the lock
SweepEnd ==
  /\ sweep.pc = "run"
  /\ sweep.queue = <<>>
  /\ sweep' = [sweep EXCEPT !.pc = "done", !.lock = FALSE, !.after = <<rows, clients>>]
  /\ UNCHANGED <<clock, rows, dayCache, procs, cancels, listed, archive, clients>>

Init ==
  /\ EngInit
  /\ gIn = CHOOSE g \in GenInputs : TRUE
  /\ gOut = NotGenerated

Next ==
  \/ \E p \in Procs, req \in BookRequests, fails \in FailChoices :
       BookValidate(p, req, fails) /\ UNCHANGED <<genVars, reader, storeVars>>
  \/ \E p \in Procs, fails \in FailChoices : BookQuota(p, fails) /\ UNCHANGED <<genVars, reader, storeVars>>
  \/ \E p \in Procs : BookAppend(p) /\ UNCHANGED <<genVars, reader, storeVars>>
  \/ \E p \in Procs, fails \in FailChoices : BookReadback(p, fails) /\ UNCHANGED <<genVars, reader, storeVars>>
  \/ \E p \in Procs, fails \in FailChoices : BookCancelSelf(p, fails) /\ UNCHANGED <<genVars, reader, storeVars>>
  \/ \E c \in Cancellers, r \in CancelRequests :
       CancelStart(c, r[1], r[2], r[3]) /\ UNCHANGED <<genVars, reader, storeVars>>
  \/ \E c \in Cancellers : CancelUpdate(c, FALSE) /\ UNCHANGED <<genVars, reader, storeVars>>
  \/ Tick /\ UNCHANGED <<genVars, reader, storeVars>>

Spec == Init /\ [][Next]_vars

(***************************************************************************)
(* Sequential runs with a reachable sheets service: a call starts only     *)
(* when no other call is in flight, and no call to the sheets fails.  No   *)
(* call loses the race check in such a run, so the loser's branch          *)
(* (BookCancelSelf) has no step here.                                      *)
(***************************************************************************)
InFlight ==
  \/ \E p \in Procs : procs[p].pc \notin {"idle", "done"}
  \/ \E c \in Cancellers : cancels[c].pc \notin {"idle", "done"}
  \/ sweep.pc = "run"

SeqNext ==
  \/ \E p \in Procs, req \in BookRequests :
       ~InFlight /\ BookValidate(p, req, FALSE) /\ UNCHANGED <<genVars, reader, storeVars>>
  \/ \E p \in Procs : BookQuota(p, FALSE) /\ UNCHANGED <<genVars, reader, storeVars>>
  \/ \E p \in Procs : BookAppend(p) /\ UNCHANGED <<genVars, reader, storeVars>>
  \/ \E p \in Procs : BookReadback(p, FALSE) /\ UNCHANGED <<genVars, reader, storeVars>>
  \/ \E c \in Cancellers, r \in CancelRequests :
       ~InFlight /\ CancelStart(c, r[1], r[2], r[3]) /\ UNCHANGED <<genVars, reader, storeVars>>
  \/ \E c \in Cancellers : CancelUpdate(c, FALSE) /\ UNCHANGED <<genVars, reader, storeVars>>
  \/ \E r \in ListRequests : ~InFlight /\ ListSlots(r[1], r[2]) /\ UNCHANGED <<genVars, reader, storeVars>>
  \/ Tick /\ UNCHANGED <<genVars, reader, storeVars>>

SpecSeq == Init /\ [][SeqNext]_vars

(***************************************************************************)
(* The life of an appointment: bookings of one slot, cancellations by the  *)
(* owner and by code (a canceller may call twice), the completion sweep,   *)
(* and an appointment that the monthly rotation (archiveOldAppointments)   *)
(* moved to the archive sheet while it was Active.                         *)
(***************************************************************************)
ArchiveMonths == 2

ArchivedId == 2 * QuotaLimit + NumProcs

ArchivedRow ==
  AppointmentRow(ArchivedId, 0, 1 - ArchiveMonths * 31, <<10, 0>>, <<10, 30>>, 2)

LifePreRows == 2

LifeBookRequests ==
  { Request("BEARD", 1, <<10, 30>>, 1),
    Request("BEARD", 1, <<10, 30>>, 2) }

LifeCancelRequests ==
  { <<"owner", 1, 1>>, <<"owner", 1, 2>>, <<"code", 1, 0>>,
    <<"owner", QuotaLimit, 1>>,
    <<"owner", QuotaLimit + 1, 1>>, <<"code", QuotaLimit + 2, 0>>,
    <<"owner", ArchivedId, 2>> }

\* the calls and the instants of the concurrent runs
RaceBookRequests == {Request("BEARD", 1, <<10, 30>>, 1)}

RaceCancelRequests ==
  { <<"owner", 1, 1>>, <<"code", 1, 0>>, <<"owner", QuotaLimit + 1, 1>>,
    <<"owner", ArchivedId, 2>> }

RaceClockValues == {ToInstant(1, <<8, 45>>), ToInstant(1, <<11, 15>>)}

LifeInit ==
  /\ clock = ToInstant(1, <<8, 45>>)
  /\ rows = PreRows(LifePreRows)
  /\ archive = <<ArchivedRow>>
  /\ clients = [PreClients(LifePreRows) EXCEPT
                  ![2] = [isNull |-> FALSE, lastAppointmentAtUtc |-> 0, total |-> 1]]
  /\ dayCache = [d \in Dates |-> NoEntry]
  /\ procs = [p \in ChainProcs |-> IdleProc]
  /\ cancels = [c \in RaceCancellers |-> IdleCancel]
  /\ listed = NotListed
  /\ sweep = IdleSweep
  /\ reader = IdleReader
  /\ updater = IdleUpdater
  /\ archiver = IdleArchiver
  /\ limiter = NoLimits
  /\ gIn = CHOOSE g \in GenInputs : TRUE
  /\ gOut = NotGenerated

RaceTick ==
  /\ \E t \in RaceClockValues : t > clock /\ clock' = t
  /\ UNCHANGED <<rows, dayCache, procs, cancels, listed, archive, clients, sweep>>

LifeNext ==
  \/ \E p \in Procs, req \in RaceBookRequests :
       BookValidate(p, req, FALSE) /\ UNCHANGED <<genVars, reader, storeVars>>
  \/ \E p \in Procs : BookQuota(p, FALSE) /\ UNCHANGED <<genVars, reader, storeVars>>
  \/ \E p \in Procs : BookAppend(p) /\ UNCHANGED <<genVars, reader, storeVars>>
  \/ \E p \in Procs : BookReadback(p, FALSE) /\ UNCHANGED <<genVars, reader, storeVars>>
  \/ \E p \in Procs : BookCancelSelf(p, FALSE) /\ UNCHANGED <<genVars, reader, storeVars>>
  \/ \E c \in Cancellers, r \in RaceCancelRequests :
       CancelStart(c, r[1], r[2], r[3]) /\ UNCHANGED <<genVars, reader, storeVars>>
  \/ \E c \in Cancellers, fails \in BOOLEAN : CancelUpdate(c, fails) /\ UNCHANGED <<genVars, reader, storeVars>>
  \/ SweepStart(FALSE) /\ UNCHANGED <<genVars, reader, storeVars>>
  \/ SweepStep(FALSE) /\ UNCHANGED <<genVars, reader, storeVars>>
  \/ SweepEnd /\ UNCHANGED <<genVars, reader, storeVars>>
  \/ RaceTick /\ UNCHANGED <<genVars, reader, storeVars>>

SpecLife == LifeInit /\ [][LifeNext]_vars

\* the same calls one after another
LifeSeqNext ==
  \/ \E p \in Procs, req \in LifeBookRequests :
       ~InFlight /\ BookValidate(p, req, FALSE) /\ UNCHANGED <<genVars, reader, storeVars>>
  \/ \E p \in Procs : BookQuota(p, FALSE) /\ UNCHANGED <<genVars, reader, storeVars>>
  \/ \E p \in Procs : BookAppend(p) /\ UNCHANGED <<genVars, reader, storeVars>>
  \/ \E p \in Procs : BookReadback(p, FALSE) /\ UNCHANGED <<genVars, reader, storeVars>>
  \/ \E c \in Cancellers, r \in LifeCancelRequests :
       ~InFlight /\ CancelStart(c, r[1], r[2], r[3]) /\ UNCHANGED <<genVars, reader, storeVars>>
  \/ \E c \in Cancellers, r \in LifeCancelRequests :
       ~InFlight /\ CancelAgain(c, r[1], r[2], r[3]) /\ UNCHANGED <<genVars, reader, storeVars>>
  \/ \E c \in Cancellers : CancelUpdate(c, FALSE) /\ UNCHANGED <<genVars, reader, storeVars>>
  \/ ~InFlight /\ SweepStart(FALSE) /\ UNCHANGED <<genVars, reader, storeVars>>
  \/ SweepStep(FALSE) /\ UNCHANGED <<genVars, reader, storeVars>>
  \/ SweepEnd /\ UNCHANGED <<genVars, reader, storeVars>>
  \/ Tick /\ UNCHANGED <<genVars, reader, storeVars>>

SpecLifeSeq == LifeInit /\ [][LifeSeqNext]_vars

(***************************************************************************)
(* The per-day cache under concurrent use: a getDaySchedule call that is   *)
(* suspended at its awaits, next to book() and cancel calls, and the       *)
(* hourly cleanup of the cache                                             *)
(***************************************************************************)
\* the number of getDaySchedule calls that the cache's own clients make
MaxReads == 2

\* the cache is tested whether or not fresh is set
GetDayStartCached(dateStr, fresh) ==
  /\ reader.pc \in {"idle", "done"}
  /\ reader.calls < MaxReads
  /\ IF CacheHit(dateStr)
     THEN reader' = [pc |-> "done", dateStr |-> dateStr, fresh |-> fresh, now |-> clock,
                     hit |-> TRUE, held |-> dayCache[dateStr], read |-> NoEntry,
                     result |-> [schedule |-> dayCache[dateStr].schedule,
                                 appointments |-> dayCache[dateStr].appointments],
                     calls |-> reader.calls + 1]
     ELSE reader' = [pc |-> "read", dateStr |-> dateStr, fresh |-> fresh, now |-> clock,
                     hit |-> FALSE, held |-> dayCache[dateStr], read |-> NoEntry,
                     result |-> NoEntry, calls |-> reader.calls + 1]
  /\ UNCHANGED <<clock, rows, dayCache, procs, cancels, listed, archive, clients, sweep>>

\* getDaySchedule(dateStr, {fresh}) up to its first await: Date.now() is taken
\* and the cache is tested unless fresh is set
GetDayStart(dateStr, fresh) ==
  /\ reader.pc \in {"idle", "done"}
  /\ reader.calls < MaxReads
  /\ IF ~fresh /\ CacheHit(dateStr)
     THEN reader' = [pc |-> "done", dateStr |-> dateStr, fresh |-> fresh, now |-> clock,
                     hit |-> TRUE, held |-> dayCache[dateStr], read |-> NoEntry,
                     result |-> [schedule |-> dayCache[dateStr].schedule,
                                 appointments |-> dayCache[dateStr].appointments],
                     calls |-> reader.calls + 1]
     ELSE reader' = [pc |-> "read", dateStr |-> dateStr, fresh |-> fresh, now |-> clock,
                     hit |-> FALSE, held |-> dayCache[dateStr], read |-> NoEntry,
                     result |-> NoEntry, calls |-> reader.calls + 1]
  /\ UNCHANGED <<clock, rows, dayCache, procs, cancels, listed, archive, clients, sweep>>

\* the sheets answer the two values.get requests of the call
GetDayRead ==
  /\ reader.pc = "read"
  /\ reader' = [reader EXCEPT !.pc = "store", !.read = ReadDaySchedule(reader.dateStr)]
  /\ UNCHANGED <<clock, rows, dayCache, procs, cancels, listed, archive, clients, sweep>>

\* an entry that exists keeps its expiresAt and only its lists are replaced
GetDayStoreKeepExpiry ==
  /\ reader.pc = "store"
  /\ dayCache' = [dayCache EXCEPT ![reader.dateStr] =
                    [isNull |-> FALSE, schedule |-> reader.read.schedule,
                     appointments |-> reader.read.appointments,
                     expiresAt |-> IF dayCache[reader.dateStr].isNull
                                   THEN reader.now + CacheTtl
                                   ELSE dayCache[reader.dateStr].expiresAt]]
  /\ reader' = [reader EXCEPT !.pc = "done", !.result = reader.read]
  /\ UNCHANGED <<clock, rows, procs, cancels, listed, archive, clients, sweep>>

\* the call resumes: dayCache[dateStr] is assigned and the snapshot returned
GetDayStore ==
  /\ reader.pc = "store"
  /\ dayCache' = [dayCache EXCEPT ![reader.dateStr] =
                    [isNull |-> FALSE, schedule |-> reader.read.schedule,
                     appointments |-> reader.read.appointments,
                     expiresAt |-> reader.now + CacheTtl]]
  /\ reader' = [reader EXCEPT !.pc = "done", !.result = reader.read]
  /\ UNCHANGED <<clock, rows, procs, cancels, listed, archive, clients, sweep>>

\* entries that expire within the next TTL are deleted as well
IsStaleSoon(entry, now) == entry.isNull \/ entry.expiresAt < now + CacheTtl

\* !entry || !entry.expiresAt || entry.expiresAt < now
IsStale(entry, now) == entry.isNull \/ entry.expiresAt < now

\* cleanupSheetsCache(): the hourly cleanup of dayCache
cleanupSheetsCache ==
  /\ dayCache' = [d \in DOMAIN dayCache |->
                    IF IsStale(dayCache[d], clock) THEN NoEntry ELSE dayCache[d]]
  /\ dayCache' # dayCache
  /\ UNCHANGED <<clock, rows, procs, cancels, listed, archive, clients, sweep>>

CacheBookRequests ==
  { Request("BEARD", 1, <<10, 30>>, 2),
    Request("PERM", 1, <<10, 30>>, 2) }

CacheCancelRequests == { <<"owner", 1, 1>> }

CacheListRequests == { <<"PERM", 1>> }

CacheClockValues == {ToInstant(1, <<9, 15>>), ToInstant(1, <<9, 30>>)}

CacheTick ==
  /\ \E t \in CacheClockValues : t > clock /\ clock' = t
  /\ UNCHANGED <<rows, dayCache, procs, cancels, listed, archive, clients, sweep>>

\* a book() or cancel call is under way; the calls of this specification follow
\* one another, and the getDaySchedule call and the cleanup run alongside them
CallInFlight ==
  \/ \E p \in Procs : procs[p].pc \notin {"idle", "done"}
  \/ \E c \in Cancellers : cancels[c].pc \notin {"idle", "done"}

CacheInit ==
  /\ Init
  /\ Len(rows) = 1

CacheNext ==
  \/ \E d \in Dates, fresh \in BOOLEAN : GetDayStart(d, fresh) /\ UNCHANGED <<genVars, storeVars>>
  \/ GetDayRead /\ UNCHANGED <<genVars, storeVars>>
  \/ GetDayStore /\ UNCHANGED <<genVars, storeVars>>
  \/ cleanupSheetsCache /\ UNCHANGED <<genVars, reader, storeVars>>
  \/ \E p \in Procs, req \in CacheBookRequests :
       ~CallInFlight /\ BookValidate(p, req, FALSE) /\ UNCHANGED <<genVars, reader, storeVars>>
  \/ \E p \in Procs : BookQuota(p, FALSE) /\ UNCHANGED <<genVars, reader, storeVars>>
  \/ \E p \in Procs : BookAppend(p) /\ UNCHANGED <<genVars, reader, storeVars>>
  \/ \E p \in Procs : BookReadback(p, FALSE) /\ UNCHANGED <<genVars, reader, storeVars>>
  \/ \E p \in Procs : BookCancelSelf(p, FALSE) /\ UNCHANGED <<genVars, reader, storeVars>>
  \/ \E c \in Cancellers, r \in CacheCancelRequests :
       ~CallInFlight /\ CancelStart(c, r[1], r[2], r[3]) /\ UNCHANGED <<genVars, reader, storeVars>>
  \/ \E c \in Cancellers : CancelUpdate(c, FALSE) /\ UNCHANGED <<genVars, reader, storeVars>>
  \/ \E r \in CacheListRequests :
       ~CallInFlight /\ ListSlots(r[1], r[2]) /\ UNCHANGED <<genVars, reader, storeVars>>
  \/ CacheTick /\ UNCHANGED <<genVars, reader, storeVars>>

SpecCache == CacheInit /\ [][CacheNext]_vars

(***************************************************************************)
(* The completion sweep with failing store calls and ticks during a run    *)
(***************************************************************************)
SweepNext ==
  \/ \E fails \in BOOLEAN : SweepStart(fails) /\ UNCHANGED <<genVars, reader, storeVars>>
  \/ \E fails \in BOOLEAN : SweepStep(fails) /\ UNCHANGED <<genVars, reader, storeVars>>
  \/ SweepEnd /\ UNCHANGED <<genVars, reader, storeVars>>
  \/ SweepSkip /\ UNCHANGED <<genVars, reader, storeVars>>
  \/ \E c \in Cancellers, r \in RaceCancelRequests :
       CancelStart(c, r[1], r[2], r[3]) /\ UNCHANGED <<genVars, reader, storeVars>>
  \/ \E c \in Cancellers : CancelUpdate(c, FALSE) /\ UNCHANGED <<genVars, reader, storeVars>>
  \/ RaceTick /\ UNCHANGED <<genVars, reader, storeVars>>

SpecSweep == LifeInit /\ [][SweepNext]_vars

(***************************************************************************)
(* Three book() calls at once for a chain of overlapping slots             *)
(***************************************************************************)
\* 10:00, 10:15 and 10:30 for 30 minutes each: the first and the third do not overlap
ChainRequest(p) ==
  Request("BEARD", 1, FormatHHmm(ToInstant(1, <<9, 45>>) + 15 * p), IF p = 1 THEN 1 ELSE 2)

ChainInit ==
  /\ Init
  /\ rows = <<>>

ChainNext ==
  \/ \E p \in ChainProcs :
       BookValidate(p, ChainRequest(p), FALSE) /\ UNCHANGED <<genVars, reader, storeVars>>
  \/ \E p \in ChainProcs : BookQuota(p, FALSE) /\ UNCHANGED <<genVars, reader, storeVars>>
  \/ \E p \in ChainProcs : BookAppend(p) /\ UNCHANGED <<genVars, reader, storeVars>>
  \/ \E p \in ChainProcs : BookReadback(p, FALSE) /\ UNCHANGED <<genVars, reader, storeVars>>
  \/ \E p \in ChainProcs : BookCancelSelf(p, FALSE) /\ UNCHANGED <<genVars, reader, storeVars>>

SpecChain == ChainInit /\ [][ChainNext]_vars

(***************************************************************************)
(* Two cancel calls at once                                                *)
(***************************************************************************)
\* by the owner and by code for appointment 1, and by the owner for appointment 2
PairCancelRequests == { <<"owner", 1, 1>>, <<"code", 1, 0>>, <<"owner", 2, 1>> }

PairInit ==
  /\ Init
  /\ rows = PreRows(2)

PairNext ==
  \/ \E c \in RaceCancellers, r \in PairCancelRequests :
       /\ cancels[c].pc = "idle"
       /\ CancelLookup(c, r[1], r[2], r[3], cancels)
       /\ UNCHANGED <<genVars, reader, storeVars>>
  \/ \E c \in RaceCancellers : CancelUpdate(c, FALSE) /\ UNCHANGED <<genVars, reader, storeVars>>
  \/ Tick /\ UNCHANGED <<genVars, reader, storeVars>>

SpecPair == PairInit /\ [][PairNext]_vars

(***************************************************************************)
(* updateAppointmentStatus step by step, next to appendAppointment and the *)
(* monthly archiveOldAppointments                                          *)
(***************************************************************************)
\* updateAppointmentStatus calls in one behaviour
MaxUpdates == 2

\* days that monthsToKeep months count in the model's calendar
DaysPerMonth == 30

OldId == 2 * QuotaLimit + NumProcs + 1

\* an appointment of long ago, completed then, still in the active sheet
OldRow ==
  [AppointmentRow(OldId, 0, 1 - 3 * DaysPerMonth, <<10, 0>>, <<10, 30>>, 2)
     EXCEPT !.status = COMPLETED, !.completedAtUtc = ToInstant(1 - 3 * DaysPerMonth, <<10, 30>>)]

\* the ids of the bookings that are appended meanwhile
AppendedIds == {IdOf(p) : p \in Procs}

\* the ids and statuses of the update calls
UpdateIds == {1, 2, OldId, ArchivedId} \cup AppendedIds

UpdateStatuses == {CANCELLED, COMPLETED}

\* values.update on the range A{rowNumber}:Q{rowNumber}: the line of that number
\* gets the values, whatever it holds now; a line just below the data becomes a row
WriteRow(sheetRows, index, rowValues) ==
  IF index <= Len(sheetRows)
  THEN [sheetRows EXCEPT ![index] = rowValues]
  ELSE Append(sheetRows, rowValues)

\* updateAppointmentStatus(id, status, stamps) up to values.update: the sheets are
\* read, the row is found by id (the last match), rowValues is set and a
\* completion updates the owner's client row
UpdateRead(id, status) ==
  /\ updater.pc \in {"idle", "done"}
  /\ updater.calls < MaxUpdates
  /\ LET started == [IdleUpdater EXCEPT !.id = id, !.status = status,
                                        !.calls = updater.calls + 1,
                                        !.before = <<rows, archive>>]
     IN IF RowIndexOf(id) # 0
        THEN /\ updater' = [started EXCEPT !.pc = "write", !.sheet = "active",
                                           !.index = RowIndexOf(id), !.found = TRUE,
                                           !.rowValues = RowAfterUpdate(rows[RowIndexOf(id)],
                                                                        status, clock)]
             /\ clients' = ClientsAfterUpdate(rows[RowIndexOf(id)], status, clock)
        ELSE IF ArchiveIndexOf(id) # 0
             THEN /\ updater' = [started EXCEPT !.pc = "write", !.sheet = "archive",
                                                !.index = ArchiveIndexOf(id), !.found = TRUE,
                                                !.rowValues = RowAfterUpdate(
                                                                archive[ArchiveIndexOf(id)],
                                                                status, clock)]
                  /\ clients' = ClientsAfterUpdate(archive[ArchiveIndexOf(id)], status, clock)
             ELSE /\ updater' = [started EXCEPT !.pc = "done"]
                  /\ UNCHANGED clients
  /\ UNCHANGED <<clock, rows, dayCache, procs, cancels, listed, archive, sweep>>

\* values.update reaches the sheet, then the day's cache entry is dropped
UpdateWrite ==
  /\ updater.pc = "write"
  /\ IF updater.sheet = "active"
     THEN /\ rows' = WriteRow(rows, updater.index, updater.rowValues)
          /\ UNCHANGED archive
     ELSE /\ archive' = WriteRow(archive, updater.index, updater.rowValues)
          /\ UNCHANGED rows
  /\ dayCache' = invalidateDayCache(dayCache, updater.rowValues.date)
  /\ updater' = [updater EXCEPT !.pc = "done", !.before = <<rows, archive>>]
  /\ UNCHANGED <<clock, procs, cancels, listed, clients, sweep>>

\* appendAppointment(appointment) of a new booking
AppendRow(id) ==
  /\ RowIndexOf(id) = 0
  /\ rows' = Append(rows, AppointmentRow(id, clock, 1, <<11, 0>>, <<11, 30>>, id - QuotaLimit))
  /\ dayCache' = invalidateDayCache(dayCache, 1)
  /\ UNCHANGED <<clock, procs, cancels, listed, archive, clients, sweep>>

\* the day that decides: of the completion for a completed row, else the row's date
DateToCheck(row) ==
  IF row.status = COMPLETED /\ row.completedAtUtc # NoStamp
  THEN row.completedAtUtc \div MinutesPerDay
  ELSE row.date

cutoffDate(now) == now \div MinutesPerDay - ArchiveMonths * DaysPerMonth

\* archiveOldAppointments() reads the active sheet and picks the rows to move
ArchiveRead ==
  /\ archiver.pc = "idle"
  /\ LET picked == {i \in 1..Len(rows) : DateToCheck(rows[i]) < cutoffDate(clock)}
     IN archiver' = [archiver EXCEPT
                       !.pc = IF picked = {} THEN "done" ELSE "append",
                       !.toArchive = SelectSeq(rows, LAMBDA r : DateToCheck(r) < cutoffDate(clock)),
                       !.rowIndicesToDelete = picked,
                       !.runs = @ + 1]
  /\ UNCHANGED <<clock, rows, dayCache, procs, cancels, listed, archive, clients, sweep>>

\* the picked rows are appended to the archive sheet
ArchiveAppend ==
  /\ archiver.pc = "append"
  /\ archive' = archive \o archiver.toArchive
  /\ archiver' = [archiver EXCEPT !.pc = "delete"]
  /\ UNCHANGED <<clock, rows, dayCache, procs, cancels, listed, clients, sweep>>

\* sheetRows without the lines of the given numbers
WithoutLines(sheetRows, lines) ==
  LET kept == {i \in 1..Len(sheetRows) : i \notin lines}
      Nth(k) == CHOOSE i \in kept : Cardinality({j \in kept : j <= i}) = k
  IN [k \in 1..Cardinality(kept) |-> sheetRows[Nth(k)]]

\* the lines read at the start are deleted from the active sheet, highest first,
\* and the cache entries of the moved rows' dates are dropped
ArchiveDelete ==
  /\ archiver.pc = "delete"
  /\ rows' = WithoutLines(rows, archiver.rowIndicesToDelete)
  /\ dayCache' = [d \in DOMAIN dayCache |->
                    IF \E i \in 1..Len(archiver.toArchive) : archiver.toArchive[i].date = d
                    THEN NoEntry ELSE dayCache[d]]
  /\ archiver' = [archiver EXCEPT !.pc = "done"]
  /\ UNCHANGED <<clock, procs, cancels, listed, archive, clients, sweep>>

UpdateInit ==
  /\ clock = ToInstant(1, <<8, 45>>)
  /\ rows = <<OldRow>> \o PreRows(2)
  /\ archive = <<ArchivedRow>>
  /\ clients = [PreClients(2) EXCEPT
                  ![2] = [isNull |-> FALSE, lastAppointmentAtUtc |-> 0, total |-> 2]]
  /\ dayCache = [d \in Dates |-> NoEntry]
  /\ procs = [p \in ChainProcs |-> IdleProc]
  /\ cancels = [c \in RaceCancellers |-> IdleCancel]
  /\ listed = NotListed
  /\ sweep = IdleSweep
  /\ reader = IdleReader
  /\ updater = IdleUpdater
  /\ archiver = IdleArchiver
  /\ limiter = NoLimits
  /\ gIn = CHOOSE g \in GenInputs : TRUE
  /\ gOut = NotGenerated

UpdateNext ==
  \/ \E id \in UpdateIds, status \in UpdateStatuses :
       UpdateRead(id, status) /\ UNCHANGED <<genVars, reader, archiver, limiter>>
  \/ UpdateWrite /\ UNCHANGED <<genVars, reader, archiver, limiter>>
  \/ \E id \in AppendedIds : AppendRow(id) /\ UNCHANGED <<genVars, reader, storeVars>>
  \/ ArchiveRead /\ UNCHANGED <<genVars, reader, updater, limiter>>
  \/ ArchiveAppend /\ UNCHANGED <<genVars, reader, updater, limiter>>
  \/ ArchiveDelete /\ UNCHANGED <<genVars, reader, updater, limiter>>

SpecUpdate == UpdateInit /\ [][UpdateNext]_vars

(***************************************************************************)
(* The rate limiter (middleware/rateLimiter.js): checkRateLimit and the    *)
(* cleanup of userRequests. Times are milliseconds.                        *)
(***************************************************************************)
\* the map holds 5000 users in the program; the model lets it hold two
MAX_MAP_SIZE == 2

INACTIVE_THRESHOLD == 10 * 60 * 1000

windowMs == 60 * 1000

\* the limit argument of the calls
RateLimit == 2

\* checkRateLimit calls in one behaviour
MaxChecks == 6

RateUsers == {1, 2, 3}

\* the values of Date.now(): within the window of the first, at its end, and
\* more than 10 minutes later
RateTimes == {0, 20 * 1000, 60 * 1000, 11 * 60 * 1000 + 20 * 1000}

\* position of the user's entry in the map, 0 when there is none
EntryIndex(map, userId) ==
  LET hits == {i \in 1..Len(map) : map[i].userId = userId}
  IN IF hits = {} THEN 0 ELSE CHOOSE i \in hits : TRUE

\* entry.requests.filter((timestamp) => now - timestamp <= windowMs)
RecentInclusive(requests, now) == SelectSeq(requests, LAMBDA t : now - t <= windowMs)

\* entry.requests.filter((timestamp) => now - timestamp < windowMs)
Recent(requests, now) == SelectSeq(requests, LAMBDA t : now - t < windowMs)

\* the entries that cleanup() removes because they are over the size of the map:
\* the least recently accessed, in the order of the map among equals
LruLines(map) ==
  {i \in 1..Len(map) :
     Cardinality({j \in 1..Len(map) :
                    \/ map[j].lastAccess < map[i].lastAccess
                    \/ map[j].lastAccess = map[i].lastAccess /\ j < i})
       < Len(map) - MAX_MAP_SIZE}

\* cleanup(): the users inactive for more than 10 minutes go, then the least
\* recently accessed ones while the map is over its size
cleanup(lim) ==
  LET active == SelectSeq(lim.userRequests,
                          LAMBDA e : ~(lim.now - e.lastAccess > INACTIVE_THRESHOLD))
  IN [lim EXCEPT !.userRequests = WithoutLines(active, LruLines(active)),
                 !.evicted = @ \cup {active[i].userId : i \in LruLines(active)}]

\* the limiter after checkRateLimit(userId, type, limit); the call is logged with
\* its result
checkRateLimit(lim, userId, limit) ==
  LET now == lim.now
      known == EntryIndex(lim.userRequests, userId) # 0
      map == IF known THEN lim.userRequests
             ELSE Append(lim.userRequests,
                         [userId |-> userId, requests |-> <<>>, lastAccess |-> now])
      k == EntryIndex(map, userId)
      requests == Recent(map[k].requests, now)
      allowed == ~(Len(requests) >= limit)
      entry == [userId |-> userId, lastAccess |-> now,
                requests |-> IF allowed THEN Append(requests, now) ELSE requests]
      checked == [lim EXCEPT !.userRequests = [map EXCEPT ![k] = entry],
                             !.log = Append(@, [userId |-> userId, at |-> now,
                                                allowed |-> allowed]),
                             !.calls = @ + 1]
  IN IF allowed /\ Len(checked.userRequests) >= MAX_MAP_SIZE
     THEN cleanup(checked)
     ELSE checked

CheckRateLimit(userId) ==
  /\ limiter.calls < MaxChecks
  /\ limiter' = checkRateLimit(limiter, userId, RateLimit)

\* setInterval(cleanup, CLEANUP_INTERVAL)
CleanupTimer ==
  /\ limiter' = cleanup(limiter)
  /\ limiter' # limiter

RateTick ==
  \E t \in RateTimes :
    /\ t > limiter.now
    /\ limiter' = [limiter EXCEPT !.now = t]

RateNext ==
  \/ \E u \in RateUsers : CheckRateLimit(u) /\ UNCHANGED <<genVars, engVars, reader, updater, archiver>>
  \/ CleanupTimer /\ UNCHANGED <<genVars, engVars, reader, updater, archiver>>
  \/ RateTick /\ UNCHANGED <<genVars, engVars, reader, updater, archiver>>

RateInit ==
  /\ Init
  /\ rows = <<>>

SpecRate == RateInit /\ [][RateNext]_vars

(***************************************************************************)
(* The work-hours resolution alone, on every drawn pair of tables          *)
(***************************************************************************)
HoursEntry(start, end) ==
  [start |-> start, end |-> end, lunchStart |-> EmptyStr, lunchEnd |-> EmptyStr]

\* rows of the work-hours sheet: full hours, and rows whose time cells are empty
HoursEntries ==
  { HoursEntry(<<9, 0>>, <<17, 0>>), HoursEntry(<<10, 0>>, <<14, 0>>),
    HoursEntry(EmptyStr, EmptyStr), HoursEntry(<<9, 0>>, EmptyStr) }

HoursKeys == {1, 2}

HoursTables == UNION {[K -> HoursEntries] : K \in SUBSET HoursKeys}

HoursDates == {1, 2, 8}

HoursInputs ==
  [byDate : HoursTables, byWeekday : HoursTables, dateStr : HoursDates]

HoursInit ==
  /\ gIn \in HoursInputs
  /\ gOut = NotGenerated
  /\ clock = ToInstant(1, <<8, 45>>)
  /\ rows = <<>>
  /\ dayCache = [d \in Dates |-> NoEntry]
  /\ procs = [p \in ChainProcs |-> IdleProc]
  /\ cancels = [c \in RaceCancellers |-> IdleCancel]
  /\ listed = NotListed
  /\ archive = <<>>
  /\ clients = PreClients(0)
  /\ sweep = IdleSweep
  /\ reader = IdleReader
  /\ updater = IdleUpdater
  /\ archiver = IdleArchiver
  /\ limiter = NoLimits

\* one call of getWorkHoursForDate on the drawn tables
ResolveHours ==
  /\ ~gOut.done
  /\ gOut' = [done |-> TRUE, slots |-> <<>>,
              hours |-> resolveWorkHours(gIn.byDate, gIn.byWeekday, gIn.dateStr)]
  /\ UNCHANGED gIn

HoursNext == ResolveHours /\ UNCHANGED <<engVars, reader, storeVars>>

SpecHours == HoursInit /\ [][HoursNext]_vars

(***************************************************************************)
(* The slot generator alone, on every drawn input                          *)
(***************************************************************************)
SlotsInit ==
  /\ GenInit
  /\ clock = ToInstant(1, <<8, 45>>)
  /\ rows = <<>>
  /\ dayCache = [d \in Dates |-> NoEntry]
  /\ procs = [p \in ChainProcs |-> IdleProc]
  /\ cancels = [c \in RaceCancellers |-> IdleCancel]
  /\ listed = NotListed
  /\ archive = <<>>
  /\ clients = PreClients(0)
  /\ sweep = IdleSweep
  /\ reader = IdleReader
  /\ updater = IdleUpdater
  /\ archiver = IdleArchiver
  /\ limiter = NoLimits

SlotsNext == GenerateSlots /\ UNCHANGED <<engVars, reader, storeVars>>

SpecSlots == SlotsInit /\ [][SlotsNext]_vars

(***************************************************************************)
(* Claims about the slot generator, checked under SpecSlots                *)
(***************************************************************************)
GenRowSpan(r) == <<ToInstant(r.date, r.timeStart), ToInstant(r.date, r.timeEnd)>>

\* the committed intervals of the drawn input: blocked ranges and active appointments
GenCommitted ==
  {GenRowSpan(gIn.schedule[i]) :
     i \in {j \in 1..Len(gIn.schedule) : gIn.schedule[j].status = BLOCKED}}
  \cup
  {GenRowSpan(gIn.appointments[i]) :
     i \in {j \in 1..Len(gIn.appointments) : gIn.appointments[j].status = ACTIVE}}

GenHasLunch ==
  /\ ~gIn.workday.isNull
  /\ gIn.workday.lunchStart # EmptyStr
  /\ gIn.workday.lunchEnd # EmptyStr
  /\ ToInstant(GenDate, gIn.workday.lunchStart) < ToInstant(GenDate, gIn.workday.lunchEnd)

GenLunch ==
  IF GenHasLunch
  THEN {<<ToInstant(GenDate, gIn.workday.lunchStart), ToInstant(GenDate, gIn.workday.lunchEnd)>>}
  ELSE {}

\* candidate starts: the work day's start plus a multiple of 15 minutes, ending by closing time
GenCandidates ==
  LET b == DayBounds(GenDate, gIn.workday)
  IN IF b = <<>> THEN {}
     ELSE {c \in b[1]..b[2] : (c - b[1]) % 15 = 0 /\ c + gIn.duration <= b[2]}

\* [c, c + duration) shares no instant with any interval of ivs (touching is allowed)
GenClearOf(c, ivs) == \A iv \in ivs : iv[2] <= c \/ c + gIn.duration <= iv[1]

GenStarts == {gOut.slots[i].start : i \in 1..Len(gOut.slots)}

\* C6: no returned slot [start, start + duration) overlaps a committed interval (a
\* blocked range or an active appointment), and a candidate that is in the work day,
\* not past and only touches committed intervals and the lunch gap at end points
\* is returned.
C6_SlotExclusion ==
  gOut.done =>
    /\ \A s \in GenStarts : \A iv \in GenCommitted :
         ~(s < iv[2] /\ iv[1] < s + gIn.duration)
    /\ \A c \in GenCandidates :
         (c >= gIn.now /\ GenClearOf(c, GenCommitted \cup GenLunch)) => c \in GenStarts

C6_Witness ==
  /\ gOut.done
  /\ \E s \in GenStarts : \E iv \in GenCommitted : s = iv[2] \/ s + gIn.duration = iv[1]
  /\ \E c \in GenCandidates : c >= gIn.now /\ ~GenClearOf(c, GenCommitted) /\ c \notin GenStarts

\* C7: no returned slot starts before now, and a candidate that starts exactly at now
\* and is otherwise free is returned.
C7_NoPastSlots ==
  gOut.done =>
    /\ \A s \in GenStarts : s >= gIn.now
    /\ \A c \in GenCandidates :
         (c = gIn.now /\ GenClearOf(c, GenCommitted \cup GenLunch)) => c \in GenStarts

C7_Witness ==
  /\ gOut.done
  /\ gIn.now \in GenStarts
  /\ \E c \in GenCandidates :
       c < gIn.now /\ GenClearOf(c, GenCommitted \cup GenLunch) /\ c \notin GenStarts

GenHappyPath ==
  /\ gIn.workday = Workday(NoHour, NoHour, <<9, 0>>, <<17, 0>>, EmptyStr, EmptyStr)
  /\ gIn.duration = 60
  /\ GenCommitted = {}
  /\ gIn.now = ToInstant(GenDate, <<8, 0>>)

\* 09:00, 09:15, ..., 16:00
GenHappyLabels == [k \in 1..29 |-> <<9 + ((k - 1) * 15) \div 60, ((k - 1) * 15) % 60>>]

\* C8: the output lists, in ascending order and once each, exactly the candidates
\* start + 15k with start + 15k + duration <= end that are not before now and not
\* busy, each with its HH:mm label and its end; for 09:00-17:00, 60 minutes, nothing
\* committed and now 08:00 it is 09:00, 09:15, ..., 16:00.
C8_SlotEnumerationExact ==
  gOut.done =>
    /\ \A i, j \in 1..Len(gOut.slots) : i < j => gOut.slots[i].start < gOut.slots[j].start
    /\ GenStarts = {c \in GenCandidates :
                      c >= gIn.now /\ GenClearOf(c, GenCommitted \cup GenLunch)}
    /\ \A i \in 1..Len(gOut.slots) :
         /\ gOut.slots[i].end = gOut.slots[i].start + gIn.duration
         /\ gOut.slots[i].timeStr =
              <<(gOut.slots[i].start - GenDate * 1440) \div 60, gOut.slots[i].start % 60>>
    /\ GenHappyPath => [i \in 1..Len(gOut.slots) |-> gOut.slots[i].timeStr] = GenHappyLabels

C8_Witness ==
  /\ gOut.done
  /\ GenHappyPath
  /\ Len(gOut.slots) = 29
  /\ gOut.slots[29].end = ToInstant(GenDate, <<17, 0>>)

\* C9: with lunchStart < lunchEnd both present, no returned slot overlaps
\* [lunchStart, lunchEnd), and a candidate that ends exactly at lunchStart or starts
\* exactly at lunchEnd is returned when it is not past and not otherwise busy.
C9_LunchGap ==
  (gOut.done /\ GenHasLunch) =>
    LET ls == ToInstant(GenDate, gIn.workday.lunchStart)
        le == ToInstant(GenDate, gIn.workday.lunchEnd)
    IN /\ \A s \in GenStarts : ~(s < le /\ ls < s + gIn.duration)
       /\ \A c \in GenCandidates :
            ((c + gIn.duration = ls \/ c = le) /\ c >= gIn.now /\ GenClearOf(c, GenCommitted))
              => c \in GenStarts

C9_Witness ==
  /\ gOut.done
  /\ GenHasLunch
  /\ \E s \in GenStarts : s + gIn.duration = ToInstant(GenDate, gIn.workday.lunchStart)
  /\ \E s \in GenStarts : s = ToInstant(GenDate, gIn.workday.lunchEnd)

(***************************************************************************)
(* Claims about the booking transactor                                     *)
(***************************************************************************)
Written(p) == \E i \in 1..Len(rows) : rows[i].id = IdOf(p)

RowOfId(id) == rows[CHOOSE i \in 1..Len(rows) : rows[i].id = id]

\* (createdAtUtc, id) order of two stored appointments
ComesFirst(a, b) ==
  \/ RowOfId(a).createdAtUtc < RowOfId(b).createdAtUtc
  \/ RowOfId(a).createdAtUtc = RowOfId(b).createdAtUtc /\ a < b

RowSpan(r) == <<ToInstant(r.date, r.timeStart), ToInstant(r.date, r.timeEnd)>>

RowsOverlap(a, b) ==
  /\ a.date = b.date
  /\ RowSpan(a)[1] < RowSpan(b)[2]
  /\ RowSpan(b)[1] < RowSpan(a)[2]

NoCallFailed == \A p \in Procs : procs[p].fault = "none"

\* C1: when all book() calls for one free (date, timeStr) have returned (no sheets
\* call failed, nobody cancelled), exactly one written appointment is Active, it is
\* the first in (createdAtUtc, id) order and its caller got ok, and every other one
\* is Cancelled and its caller got slot_taken.
C1_RaceConvergence ==
  ( /\ \A p \in Procs : procs[p].pc = "done" /\ Written(p)
    /\ \A p, q \in Procs : /\ procs[p].req.dateStr = procs[q].req.dateStr
                           /\ procs[p].req.timeStr = procs[q].req.timeStr
    /\ NoCallFailed
    /\ \A c \in Cancellers : cancels[c].pc = "idle" )
  => \E w \in Procs :
       /\ RowOfId(IdOf(w)).status = ACTIVE
       /\ procs[w].result = "ok"
       /\ \A q \in Procs \ {w} :
            /\ RowOfId(IdOf(q)).status = CANCELLED
            /\ procs[q].result = "slot_taken"
            /\ ComesFirst(IdOf(w), IdOf(q))

\* C2: when no book() call is in flight (and no sheets call failed), no two Active
\* appointments of one date have overlapping intervals [timeStart, timeEnd).
C2_NoDoubleBooking ==
  ( /\ \A p \in Procs : procs[p].pc \in {"idle", "done"}
    /\ NoCallFailed )
  => \A i, j \in 1..Len(rows) :
       (i < j /\ rows[i].status = ACTIVE /\ rows[j].status = ACTIVE)
         => ~RowsOverlap(rows[i], rows[j])

\* the read-back of call p found another overlapping Active appointment that comes
\* before p's own
ShowsNotWinner(p) ==
  \E o \in procs[p].seen : o # IdOf(p) /\ ComesFirst(o, IdOf(p))

\* C3: a returned book() whose read-back showed it is not the winner has its
\* appointment Cancelled in the sheet and returned slot_taken; a book() that returned
\* ok after a read-back found no other overlapping Active appointment, or found its
\* own appointment first in (createdAtUtc, id) order.
C3_ResultAgreesWithStore ==
  \A p \in Procs :
    (procs[p].pc = "done" /\ Written(p) /\ procs[p].fault # "readback") =>
      /\ ShowsNotWinner(p) =>
           (RowOfId(IdOf(p)).status = CANCELLED /\ procs[p].result = "slot_taken")
      /\ procs[p].result = "ok" =>
           \/ procs[p].seen \ {IdOf(p)} = {}
           \/ /\ IdOf(p) \in procs[p].seen
              /\ \A o \in procs[p].seen \ {IdOf(p)} : ComesFirst(IdOf(p), o)

ActiveCount(owner, date) ==
  Cardinality({i \in 1..Len(rows) :
                 rows[i].status = ACTIVE /\ rows[i].telegramId = owner /\ rows[i].date = date})

\* the quota step of call p is being taken
LeavesQuota(p) == procs[p].pc = "quota" /\ procs'[p].pc # "quota"

\* C4: in sequential runs, a book() that reaches the quota check while its owner
\* holds 3 (or more) Active appointments on the date returns limit_exceeded and
\* leaves the sheet as it is; with 0, 1 or 2 the quota check lets it go on to the
\* write; a call that returned limit_exceeded has no row in the sheet.
C4_QuotaSequential ==
  [][\A p \in Procs :
       /\ LeavesQuota(p) =>
            IF ActiveCount(procs[p].req.telegramId, procs[p].req.dateStr) >= 3
            THEN /\ procs'[p].pc = "done"
                 /\ procs'[p].result = "limit_exceeded"
                 /\ rows' = rows
            ELSE /\ procs'[p].pc = "append"
                 /\ procs'[p].result = "none"
       /\ procs'[p].result = "limit_exceeded" =>
            \A i \in 1..Len(rows') : rows'[i].id # IdOf(p)]_vars

C4_Witness ==
  \E p, q \in Procs :
    /\ procs[p].pc = "done" /\ procs[p].result = "limit_exceeded" /\ ~Written(p)
    /\ ActiveCount(procs[p].req.telegramId, procs[p].req.dateStr) = 3
    /\ procs[q].pc = "done" /\ procs[q].result = "ok" /\ Written(q)
    /\ procs[q].req.telegramId = procs[p].req.telegramId
    /\ procs[q].req.dateStr = procs[p].req.dateStr

\* C5: no owner holds more than 3 Active appointments on one date; stated for the
\* states in which every book() call has returned, no sheets call failed and no two
\* Active appointments overlap (the claim says it of every reachable state).
C5_QuotaInvariant ==
  ( /\ \A p \in Procs : procs[p].pc \in {"idle", "done"}
    /\ NoCallFailed
    /\ \A i, j \in 1..Len(rows) :
         (i < j /\ rows[i].status = ACTIVE /\ rows[j].status = ACTIVE)
           => ~RowsOverlap(rows[i], rows[j]) )
  => \A o \in Owners, d \in Dates : ActiveCount(o, d) <= 3

\* dates to which no work schedule applies: no entry by date, none by weekday
ClosedDates ==
  {d \in Dates : d \notin DOMAIN WorkHoursByDate
                   /\ Weekday(d) \notin DOMAIN WorkHoursByWeekday}

\* C10: on a date without work schedule the slot list is empty for every service,
\* and a book() for that date (known service, owner not banned) has returned closed
\* as soon as it has started, with no row written, whatever the requested time.
C10_ClosedDay ==
  /\ (listed.done /\ listed.dateStr \in ClosedDates) => listed.slots = <<>>
  /\ \A p \in Procs :
       (procs[p].pc # "idle" /\ procs[p].req.dateStr \in ClosedDates) =>
         /\ ~Written(p)
         /\ procs[p].req.telegramId \notin BannedOwners =>
              (procs[p].pc = "done" /\ procs[p].result = "closed")

C10_Witness ==
  /\ listed.done /\ listed.dateStr \in ClosedDates /\ listed.slots = <<>>
  /\ \E p, q \in Procs :
       /\ procs[p].result = "closed" /\ procs[q].result = "closed"
       /\ procs[p].req.timeStr # procs[q].req.timeStr
       /\ procs[p].req.serviceKey # procs[q].req.serviceKey
       /\ procs[p].req.dateStr \in ClosedDates /\ procs[q].req.dateStr \in ClosedDates

(***************************************************************************)
(* Claims about cancellation and completion                                *)
(***************************************************************************)
\* the rows with this id in the two sheets, the active sheet first
RowsWithId(active, arch, id) ==
  SelectSeq(active, LAMBDA r : r.id = id) \o SelectSeq(arch, LAMBDA r : r.id = id)

\* canceller c starts a call in this step
StartsCancel(c) ==
  /\ cancels[c].pc \in {"idle", "done"}
  /\ cancels'[c].kind # "none"
  /\ cancels'[c] # cancels[c]

\* canceller c takes the status update step
UpdatesCancel(c) == cancels[c].pc = "update" /\ cancels'[c].pc = "done"

\* the step changes no appointment, no client and no cache entry
StoreUntouched ==
  rows' = rows /\ archive' = archive /\ clients' = clients /\ dayCache' = dayCache

\* the status update of the call left the appointment Cancelled with the stamp taken
\* by the call, every other row as it was, and no cache entry for the date
CancelledByUpdate(c) ==
  LET id == cancels[c].id
      was == RowsWithId(rows, archive, id)[1]
      is == RowsWithId(rows', archive', id)[1]
  IN /\ cancels'[c].result = "ok"
     /\ is = [was EXCEPT !.status = CANCELLED, !.cancelledAtUtc = cancels[c].stamp]
     /\ cancels[c].stamp # NoStamp
     /\ \A i \in 1..Len(rows) : rows[i].id # id => rows'[i] = rows[i]
     /\ \A i \in 1..Len(archive) : archive[i].id # id => archive'[i] = archive[i]
     /\ Len(rows') = Len(rows) /\ Len(archive') = Len(archive)
     /\ clients' = clients
     /\ was.date \in Dates => dayCache'[was.date] = NoEntry

\* C11: in sequential runs cancelByOwner returns appointment_not_found when no
\* appointment has the id, else not_owner when the stored owner differs from the
\* caller, else already_cancelled when the status is not Active (Completed too),
\* each time leaving appointments, clients and cache as they were; only otherwise
\* it goes on to the update, which sets Cancelled with cancelledAtUtc and drops the
\* date's cache entry.
C11_CancelByOwnerOutcome ==
  [][\A c \in Cancellers :
       /\ (StartsCancel(c) /\ cancels'[c].kind = "owner") =>
            LET found == RowsWithId(rows, archive, cancels'[c].id)
                expected ==
                  IF found = <<>> THEN "appointment_not_found"
                  ELSE IF found[1].telegramId # cancels'[c].caller THEN "not_owner"
                  ELSE IF found[1].status # ACTIVE THEN "already_cancelled"
                  ELSE "none"
            IN /\ StoreUntouched
               /\ cancels'[c].result = expected
               /\ cancels'[c].pc = IF expected = "none" THEN "update" ELSE "done"
       /\ (UpdatesCancel(c) /\ cancels[c].kind = "owner") => CancelledByUpdate(c)]_vars

C11_Witness ==
  \E c \in Cancellers :
    /\ cancels[c].pc = "done" /\ cancels[c].kind = "owner"
    /\ cancels[c].result = "already_cancelled"
    /\ RowsWithId(rows, archive, cancels[c].id)[1].status = COMPLETED
    /\ cancels[c].prior.kind = "owner" /\ cancels[c].prior.result = "ok"
    /\ RowsWithId(rows, archive, cancels[c].prior.id)[1].status = CANCELLED
    /\ RowsWithId(rows, archive, cancels[c].prior.id)[1].cancelledAtUtc # NoStamp
    /\ dayCache[1].isNull

\* C12: in sequential runs cancelByCode on an Active appointment goes on to the
\* update whoever calls, and the update leaves the appointment Cancelled; a later
\* cancelByOwner by the true owner or cancelByCode with the same code, made after
\* that call returned ok, returns already_cancelled and changes nothing.
C12_CancelByCodeThenOwner ==
  [][\A c \in Cancellers :
       /\ (StartsCancel(c) /\ cancels'[c].kind = "code") =>
            LET found == SelectSeq(rows \o archive,
                                   LAMBDA r : r.cancelCode = 100 + cancels'[c].id)
            IN (found # <<>> /\ found[1].status = ACTIVE) =>
                 (cancels'[c].pc = "update" /\ StoreUntouched)
       /\ (UpdatesCancel(c) /\ cancels[c].kind = "code") => CancelledByUpdate(c)
       /\ ( /\ StartsCancel(c)
            /\ cancels[c].pc = "done" /\ cancels[c].kind = "code"
            /\ cancels[c].result = "ok"
            /\ cancels'[c].id = cancels[c].id
            /\ \/ cancels'[c].kind = "code"
               \/ cancels'[c].caller = RowsWithId(rows, archive, cancels[c].id)[1].telegramId )
          => /\ cancels'[c].pc = "done"
             /\ cancels'[c].result = "already_cancelled"
             /\ StoreUntouched
             /\ RowsWithId(rows, archive, cancels[c].id)[1].status = CANCELLED]_vars

C12_Witness ==
  \E c \in Cancellers :
    /\ cancels[c].pc = "done" /\ cancels[c].kind = "owner"
    /\ cancels[c].result = "already_cancelled"
    /\ cancels[c].prior.kind = "code" /\ cancels[c].prior.result = "ok"
    /\ cancels[c].prior.id = cancels[c].id
    /\ RowsWithId(rows, archive, cancels[c].id)[1].status = CANCELLED
    /\ RowsWithId(rows, archive, cancels[c].id)[1].telegramId = cancels[c].caller

\* C13: an appointment whose status is Cancelled or Completed keeps that status in
\* every step, whichever of the cancel calls, the sweep and the race check of
\* book() acts on it.
C13_TerminalStatuses ==
  [][/\ \A i \in 1..Len(rows) :
          rows[i].status \in {CANCELLED, COMPLETED} =>
            (i <= Len(rows') /\ rows'[i].id = rows[i].id /\ rows'[i].status = rows[i].status)
     /\ \A i \in 1..Len(archive) :
          archive[i].status \in {CANCELLED, COMPLETED} =>
            (i <= Len(archive') /\ archive'[i].status = archive[i].status)]_vars

\* the sweep finishes its run in this step
EndsSweep == sweep.pc = "run" /\ sweep'.pc = "done"

\* C14: in sequential runs a sweep that starts from the appointments and client
\* records that the previous sweep left, at the same now, performs no status update
\* and ends with appointments and client records exactly as the previous one left
\* them.
C14_IdempotentCompletion ==
  [][(EndsSweep /\ sweep.repeat) =>
       /\ sweep.updates = 0
       /\ <<rows, clients>> = sweep.before
       /\ <<rows, clients>> = sweep.after]_vars

C14_Witness ==
  /\ sweep.pc = "done" /\ sweep.repeat /\ sweep.updates = 0
  /\ <<rows, clients>> = sweep.after
  /\ \E i \in 1..Len(rows) :
       /\ rows[i].status = COMPLETED /\ rows[i].completedAtUtc = sweep.now
       /\ clients[rows[i].telegramId].lastAppointmentAtUtc = sweep.now

ListedReasons ==
  {"closed", "slot_taken", "limit_exceeded", "appointment_not_found", "not_owner",
   "already_cancelled", "banned"}

\* the results that calls have returned so far
ReturnedResults ==
  {procs[p].result : p \in {q \in Procs : procs[q].pc = "done"}}
    \cup {cancels[c].result : c \in {d \in Cancellers : cancels[d].pc = "done"}}
    \cup {cancels[c].prior.result : c \in {d \in Cancellers : cancels[d].prior # NoPrior}}

\* C16 as stated: every failure result that book(), cancelByOwner and cancelByCode
\* return carries one of the seven listed reason codes, also when the status
\* update of a cancel call reports that it did not find the row.
C16_ClosedReasonSet ==
  \A r \in ReturnedResults : r # "ok" => r \in ListedReasons

\* C16 amended: every failure result that book(), cancelByOwner and cancelByCode
\* return carries one of the seven listed reason codes or, when the status update
\* of a cancel call reports that it did not find the row, update_failed.
C16_ReasonCodes ==
  /\ \A r \in ReturnedResults : r # "ok" => r \in ListedReasons \cup {"update_failed"}
  /\ \A c \in Cancellers :
        (cancels[c].pc = "done" /\ cancels[c].result = "update_failed") =>
           /\ RowIndexOf(cancels[c].id) = 0
           /\ cancels[c].stamp # NoStamp

\* a cancel call whose status update found no row has returned, next to a book()
\* call that was rejected
C16_Witness ==
  /\ \E c \in Cancellers : cancels[c].pc = "done" /\ cancels[c].result = "update_failed"
  /\ \E p \in Procs : procs[p].pc = "done" /\ procs[p].result \in ListedReasons

\* the reasons of a rejection before the write
PreCommitReasons == {"banned", "closed", "slot_taken", "limit_exceeded"}

\* call p returns a rejection from a step before the write
RejectsBeforeCommit(p) ==
  /\ procs[p].pc \in {"idle", "quota"}
  /\ procs'[p].pc = "done"
  /\ procs'[p].result \in PreCommitReasons

\* C17: when book() returns banned, closed, limit_exceeded, or slot_taken from the
\* re-validation step, the call has written no appointment row, has created or
\* modified no Client record, has changed no status of an existing appointment,
\* and the result is a returned value, not a thrown error.
C17_PreCommitRejections ==
  [][\A p \in Procs :
       RejectsBeforeCommit(p) =>
         /\ rows' = rows
         /\ archive' = archive
         /\ clients' = clients
         /\ RowIndexOf(IdOf(p)) = 0
         /\ procs[p].createdAtUtc = NoStamp
         /\ procs'[p].result # "throw"]_vars

\* one call was rejected by the quota check and another by the re-validation,
\* and neither left a row
C17_Witness ==
  \E p, q \in Procs :
    /\ procs[p].pc = "done" /\ procs[p].result = "limit_exceeded"
    /\ procs[q].pc = "done" /\ procs[q].result = "slot_taken"
    /\ procs[q].createdAtUtc = NoStamp
    /\ RowIndexOf(IdOf(p)) = 0 /\ RowIndexOf(IdOf(q)) = 0
    /\ Len(rows) = QuotaLimit

\* the rejection conditions of a request, read off the configuration and the sheet
IsBanned(req) == req.telegramId \in BannedOwners

IsClosed(req) == req.dateStr \in ClosedDates

IsTaken(req) ==
  \E i \in 1..Len(rows) :
    /\ rows[i].status = ACTIVE
    /\ rows[i].date = req.dateStr
    /\ ReqStart(req) < RowSpan(rows[i])[2]
    /\ RowSpan(rows[i])[1] < ReqEnd(req)

IsAtQuota(req) == ActiveCount(req.telegramId, req.dateStr) >= QuotaLimit

\* C18: when several rejection conditions of book() hold at once the reported
\* reason follows the step order banned, closed, slot_taken, limit_exceeded: a
\* banned owner gets banned also on a closed day or for a taken slot; an owner who
\* is not banned gets closed on a closed day; on an open day a taken slot gets
\* slot_taken also for an owner at quota; limit_exceeded is reported only when
\* none of the earlier conditions holds.
C18_RejectionPrecedence ==
  [][\A p \in Procs :
       /\ (procs[p].pc = "idle" /\ procs'[p].pc # "idle") =>
            LET req == procs'[p].req
                rejected == procs'[p].pc = "done"
            IN /\ IsBanned(req) => (rejected /\ procs'[p].result = "banned")
               /\ (~IsBanned(req) /\ IsClosed(req)) =>
                    (rejected /\ procs'[p].result = "closed")
               /\ (~IsBanned(req) /\ ~IsClosed(req) /\ IsTaken(req)) =>
                    (rejected /\ procs'[p].result = "slot_taken")
       /\ (procs[p].pc = "quota" /\ procs'[p].pc = "done") =>
            /\ procs'[p].result = "limit_exceeded"
            /\ IsAtQuota(procs[p].req)
            /\ ~IsBanned(procs[p].req) /\ ~IsClosed(procs[p].req) /\ ~IsTaken(procs[p].req)]_vars

\* a banned owner asked for a closed day and got banned; an owner at quota asked
\* for a taken slot and got slot_taken
C18_Witness ==
  \E p, q \in Procs :
    /\ procs[p].pc = "done" /\ procs[p].result = "banned"
    /\ IsBanned(procs[p].req) /\ IsClosed(procs[p].req)
    /\ procs[q].pc = "done" /\ procs[q].result = "slot_taken"
    /\ procs[q].createdAtUtc = NoStamp
    /\ IsAtQuota(procs[q].req) /\ IsTaken(procs[q].req)

\* a cancel call has cancelled the appointment id
CancelledByCall(id) ==
  \E c \in Cancellers :
    /\ cancels[c].id = id
    /\ cancels[c].pc = "done"
    /\ cancels[c].result = "ok"

\* C19: if the re-read of the day's Active appointments fails after the
\* appointment has been written, book() returns ok with the written appointment,
\* and that appointment is in the sheet and stays Active (until a cancel call
\* cancels it).
C19_ReadbackFailureNonFatal ==
  \A p \in Procs :
    (procs[p].pc = "done" /\ procs[p].fault = "readback") =>
      /\ procs[p].result = "ok"
      /\ RowIndexOf(IdOf(p)) # 0
      /\ LET row == rows[RowIndexOf(IdOf(p))]
         IN /\ row.date = procs[p].req.dateStr
            /\ row.timeStart = procs[p].req.timeStr
            /\ row.telegramId = procs[p].req.telegramId
            /\ row.createdAtUtc = procs[p].createdAtUtc
            /\ row.status = ACTIVE \/ CancelledByCall(IdOf(p))

\* a call whose re-read failed has returned while another Active appointment
\* overlaps the one it wrote
C19_Witness ==
  \E p \in Procs :
    /\ procs[p].pc = "done" /\ procs[p].fault = "readback" /\ procs[p].result = "ok"
    /\ RowIndexOf(IdOf(p)) # 0
    /\ rows[RowIndexOf(IdOf(p))].status = ACTIVE
    /\ \E i \in 1..Len(rows) :
         /\ i # RowIndexOf(IdOf(p))
         /\ rows[i].status = ACTIVE
         /\ RowsOverlap(rows[i], rows[RowIndexOf(IdOf(p))])

(***************************************************************************)
(* Claims about the slot list after a write                                *)
(***************************************************************************)
\* a listAvailableSlots call returns in this step
ListsNow ==
  /\ listed'.done
  /\ procs' = procs /\ cancels' = cancels /\ rows' = rows /\ clock' = clock

\* [start, start + duration) is a slot of the date's grid inside the work hours
\* that no blocked interval and no Active appointment overlaps
OtherwiseFree(date, start, duration) ==
  /\ date \in DOMAIN WorkHoursByDate
  /\ LET dayStart == ToInstant(date, WorkHoursByDate[date].start)
         dayEnd == ToInstant(date, WorkHoursByDate[date].end)
     IN /\ dayStart <= start /\ start + duration <= dayEnd
        /\ (start - dayStart) % SlotStep = 0
  /\ \A i \in 1..Len(ScheduleSheet) :
        ScheduleSheet[i].date = date =>
          ~(start < ToInstant(date, ScheduleSheet[i].timeEnd)
              /\ ToInstant(date, ScheduleSheet[i].timeStart) < start + duration)
  /\ \A i \in 1..Len(rows) :
        (rows[i].date = date /\ rows[i].status = ACTIVE) =>
          ~(start < RowSpan(rows[i])[2] /\ RowSpan(rows[i])[1] < start + duration)

\* C20: in a sequential run, a listAvailableSlots for a date offers no slot that
\* overlaps an appointment for which book() has returned ok (and which is still
\* Active), and offers the start time of an appointment whose cancel has returned
\* ok when that start is otherwise free and not past, also when the date's cache
\* entry was filled before the write and has not expired.
C20_ReadsSeeWrites ==
  [][ListsNow =>
       LET date == listed'.dateStr
           duration == Services[listed'.serviceKey]
           offered == {listed'.slots[i].start : i \in 1..Len(listed'.slots)}
       IN /\ \A p \in Procs :
               (/\ procs[p].pc = "done" /\ procs[p].result = "ok"
                /\ procs[p].req.dateStr = date
                /\ RowIndexOf(IdOf(p)) # 0
                /\ rows[RowIndexOf(IdOf(p))].status = ACTIVE) =>
                 \A s \in offered :
                   ~(s < ReqEnd(procs[p].req) /\ ReqStart(procs[p].req) < s + duration)
          /\ \A c \in Cancellers :
               (/\ cancels[c].pc = "done" /\ cancels[c].result = "ok"
                /\ RowIndexOf(cancels[c].id) # 0
                /\ rows[RowIndexOf(cancels[c].id)].date = date) =>
                 LET start == RowSpan(rows[RowIndexOf(cancels[c].id)])[1]
                 IN (OtherwiseFree(date, start, duration) /\ start >= clock) =>
                      start \in offered]_vars

\* the owner at quota was rejected (the re-validation filled the cache), then the
\* first appointment was cancelled, then the owner booked 11:00, and the list
\* taken at the same clock offers 09:30 and not 11:00
C20_Witness ==
  /\ listed.done /\ listed.dateStr = 1 /\ listed.serviceKey = "BEARD"
  /\ clock = ToInstant(1, <<8, 45>>)
  /\ \E p, q \in Procs :
       /\ procs[q].pc = "done" /\ procs[q].result = "limit_exceeded"
       /\ procs[q].req.dateStr = 1
       /\ procs[p].pc = "done" /\ procs[p].result = "ok"
       /\ procs[p].req = procs[q].req
       /\ \A i \in 1..Len(listed.slots) : listed.slots[i].timeStr # procs[p].req.timeStr
  /\ \E c \in Cancellers :
       /\ cancels[c].pc = "done" /\ cancels[c].result = "ok" /\ cancels[c].id = 1
       /\ \E i \in 1..Len(listed.slots) : listed.slots[i].timeStr = rows[1].timeStart

(***************************************************************************)
(* Claims about the per-day cache                                          *)
(***************************************************************************)
\* the dates of the rows that this step adds to the sheet or changes in it
WrittenDates ==
  {rows'[i].date : i \in {j \in 1..Len(rows') : j > Len(rows) \/ rows'[j] # rows[j]}}

\* C21: a new appointment or a status change for date D removes at most the cache
\* entry keyed D; the entries of every other date are left as they were, with the
\* same snapshot and the same expiresAt.
C21_InvalidationPerDate ==
  [][rows' # rows =>
       \A d \in Dates :
         /\ d \notin WrittenDates => dayCache'[d] = dayCache[d]
         /\ d \in WrittenDates => dayCache'[d] \in {dayCache[d], NoEntry}]_vars

\* the entry of date 2 was filled at 08:45 and is still there after an appointment
\* for date 1 was written at 09:15 or later, which removed the entry of date 1
C21_Witness ==
  /\ ~dayCache[2].isNull
  /\ dayCache[2].expiresAt = ToInstant(1, <<8, 45>>) + CacheTtl
  /\ dayCache[1].isNull
  /\ \E p \in Procs :
       /\ procs[p].pc = "readback"
       /\ procs[p].req.dateStr = 1
       /\ procs[p].createdAtUtc >= ToInstant(1, <<9, 15>>)

\* the steps of the getDaySchedule call
StartsRead == reader.pc \in {"idle", "done"} /\ reader'.calls = reader.calls + 1

StoresRead == reader.pc = "store" /\ reader'.pc = "done"

\* the appointments of a date that the sheet holds and a day snapshot shows
SourceAppointments(dateStr) ==
  SelectSeq(rows, LAMBDA r : r.date = dateStr /\ r.status = ACTIVE)

\* C22: getDaySchedule(date, {fresh: true}) always reads the source and never
\* returns the cached snapshot, also when an unexpired entry exists; it replaces
\* the date's cache entry by the snapshot it read, with a new expiresAt.
C22_FreshBypass ==
  [][/\ (StartsRead /\ reader'.fresh) => (reader'.pc = "read" /\ ~reader'.hit)
     /\ (reader.pc = "read" /\ reader'.pc = "store" /\ reader.fresh) =>
          reader'.read.appointments = SourceAppointments(reader.dateStr)
     /\ (StoresRead /\ reader.fresh) =>
          /\ reader'.result = reader.read
          /\ ~dayCache'[reader.dateStr].isNull
          /\ dayCache'[reader.dateStr].appointments = reader.read.appointments
          /\ dayCache'[reader.dateStr].schedule = reader.read.schedule
          /\ dayCache'[reader.dateStr].expiresAt = reader.now + CacheTtl]_vars

\* a fresh call that found an unexpired entry has returned a snapshot other than
\* the one the entry held, and the entry now holds what the call returned
C22_Witness ==
  /\ reader.pc = "done" /\ reader.fresh
  /\ ~reader.held.isNull /\ reader.held.expiresAt > reader.now
  /\ reader.result.appointments # reader.held.appointments
  /\ dayCache[reader.dateStr].appointments = reader.result.appointments
  /\ reader.now > ToInstant(1, <<8, 45>>)
  /\ dayCache[reader.dateStr].expiresAt = reader.now + CacheTtl

\* C23: the slot check that book() makes right before writing is computed from the
\* intervals as the sheets hold them at that moment, not from a cached snapshot: a
\* request (known service, owner not banned, open day) for a slot that overlaps an
\* Active appointment in the sheet is rejected with slot_taken by the
\* re-validation, before any write.
C23_RevalidationReadsSource ==
  [][\A p \in Procs :
       (/\ procs[p].pc = "idle" /\ procs'[p].pc # "idle"
        /\ ~getServiceByKey(procs'[p].req.serviceKey).isNull
        /\ ~IsBanned(procs'[p].req) /\ ~IsClosed(procs'[p].req)
        /\ IsTaken(procs'[p].req)) =>
         (procs'[p].pc = "done" /\ procs'[p].result = "slot_taken")]_vars

(***************************************************************************)
(* Claims about the clients sheet                                          *)
(***************************************************************************)
\* totalAppointments of a client row; an identity without row counts 0
TotalOf(client) == IF client.isNull THEN 0 ELSE client.total

\* call p of owner o writes its appointment in this step
CommitsFor(p, o) ==
  /\ procs[p].pc = "append" /\ procs'[p].pc = "readback"
  /\ procs[p].req.telegramId = o

\* C25: in a sequential run the Client record of an identity is created or
\* updated, and its totalAppointments goes up by one, exactly with a book() call
\* of that identity that returns ok; completion and cancellation of an appointment
\* leave totalAppointments as it is.
C25_ClientFollowsBookings ==
  [][/\ \A o \in Owners :
          IF \E p \in Procs : CommitsFor(p, o)
          THEN /\ ~clients'[o].isNull
               /\ TotalOf(clients'[o]) = TotalOf(clients[o]) + 1
          ELSE TotalOf(clients'[o]) = TotalOf(clients[o])
     /\ \A p \in Procs :
          (procs[p].pc = "readback" /\ procs'[p].pc # "readback") =>
            (procs'[p].pc = "done" /\ procs'[p].result = "ok")]_vars

(***************************************************************************)
(* Claims about malformed lunch entries                                    *)
(***************************************************************************)
\* the work day has work hours, and a lunch entry with one bound only or with
\* lunchStart not before lunchEnd
GenMalformedLunch ==
  /\ ~gIn.workday.isNull
  /\ \/ (gIn.workday.lunchStart = EmptyStr) # (gIn.workday.lunchEnd = EmptyStr)
     \/ /\ gIn.workday.lunchStart # EmptyStr /\ gIn.workday.lunchEnd # EmptyStr
        /\ ~(ToInstant(GenDate, gIn.workday.lunchStart)
               < ToInstant(GenDate, gIn.workday.lunchEnd))

\* the work day of the input without its lunch entry
GenWithoutLunch ==
  [gIn.workday EXCEPT !.lunchStart = EmptyStr, !.lunchEnd = EmptyStr]

\* C28: when only one lunch bound is present, or lunchStart is not before
\* lunchEnd, the slot generator returns exactly the slots it returns for the same
\* inputs with no lunch at all.
C28_MalformedLunchIgnored ==
  (gOut.done /\ GenMalformedLunch) =>
    /\ gOut.slots = buildSlotsForDay(GenDate, gIn.duration, GenWithoutLunch, gIn.schedule,
                                     gIn.appointments, gIn.now)
    /\ GenStarts = {c \in GenCandidates : c >= gIn.now /\ GenClearOf(c, GenCommitted)}

\* lunch 14:00-13:00 on a free day: slots that lie between 13:00 and 14:00 are offered
C28_Witness ==
  /\ gOut.done
  /\ GenMalformedLunch
  /\ gIn.workday.lunchStart = <<14, 0>> /\ gIn.workday.lunchEnd = <<13, 0>>
  /\ ToInstant(GenDate, <<13, 15>>) \in GenStarts

(***************************************************************************)
(* Claims about unknown service keys                                       *)
(***************************************************************************)
\* this step leaves the sheets and the cache as they are
NoSheetAccess ==
  /\ rows' = rows /\ archive' = archive /\ clients' = clients
  /\ dayCache' = dayCache

\* C26: book() and listAvailableSlots called with a key that resolves to no
\* service raise an error, return no result with a reason code, and do so before
\* any read or write of the sheets.
C26_UnknownServiceKey ==
  [][/\ \A p \in Procs :
          (/\ procs[p].pc = "idle" /\ procs'[p].pc # "idle"
           /\ procs'[p].req.serviceKey \notin DOMAIN Services) =>
            /\ procs'[p].pc = "done"
            /\ procs'[p].result = "throw"
            /\ NoSheetAccess
     /\ (/\ listed'.done /\ listed' # listed
         /\ listed'.serviceKey \notin DOMAIN Services) =>
          /\ listed'.threw
          /\ listed'.slots = <<>>
          /\ NoSheetAccess]_vars

\* a book() and a listing with an unknown key have both raised, and the cache
\* holds no entry although nothing was cached before
C26_Witness ==
  /\ \E p \in Procs :
       /\ procs[p].pc = "done" /\ procs[p].result = "throw"
       /\ procs[p].req.serviceKey \notin DOMAIN Services
  /\ listed.done /\ listed.threw /\ listed.serviceKey \notin DOMAIN Services
  /\ \A d \in Dates : dayCache[d].isNull
  /\ reader.calls = 0
  /\ \A p \in Procs : procs[p].result \in {"none", "throw"}

(***************************************************************************)
(* Claims about the work-hours resolution                                  *)
(***************************************************************************)
\* the entry as the work day that getWorkHoursForDate returns for it
AsWorkday(v) == Workday(NoHour, NoHour, v.start, v.end, v.lunchStart, v.lunchEnd)

HasHours(v) == v.start # EmptyStr /\ v.end # EmptyStr

HasDateEntry == gIn.dateStr \in DOMAIN gIn.byDate

HasWeekdayEntry == (gIn.dateStr % 7) \in DOMAIN gIn.byWeekday

\* C27 as stated: the resolved working hours are those of the date-specific entry
\* whenever one exists for the date, otherwise those of the weekday default of the
\* date's weekday, and the date is closed only when neither entry exists.
C27_ScheduleResolution ==
  gOut.done =>
    /\ HasDateEntry => gOut.hours = AsWorkday(gIn.byDate[gIn.dateStr])
    /\ (~HasDateEntry /\ HasWeekdayEntry) =>
         gOut.hours = AsWorkday(gIn.byWeekday[gIn.dateStr % 7])
    /\ gOut.hours.isNull <=> (~HasDateEntry /\ ~HasWeekdayEntry)

\* C27 amended: the entry that applies is the date-specific entry whenever one
\* exists for the date, otherwise the weekday default of the date's weekday; the
\* resolved working hours are those of the entry that applies when it has both a
\* start and an end, and the date is closed when no entry applies or the entry
\* that applies lacks its start or its end.
C27_ScheduleResolutionWithHours ==
  gOut.done =>
    LET applies == IF HasDateEntry THEN {gIn.byDate[gIn.dateStr]}
                   ELSE IF HasWeekdayEntry THEN {gIn.byWeekday[gIn.dateStr % 7]}
                   ELSE {}
    IN /\ \A v \in applies : HasHours(v) => gOut.hours = AsWorkday(v)
       /\ gOut.hours.isNull <=> \A v \in applies : ~HasHours(v)

\* the date has an entry without hours and its weekday has one with hours: closed
C27_Witness ==
  /\ gOut.done
  /\ HasDateEntry /\ ~HasHours(gIn.byDate[gIn.dateStr])
  /\ HasWeekdayEntry /\ HasHours(gIn.byWeekday[gIn.dateStr % 7])
  /\ gOut.hours.isNull

(***************************************************************************)
(* Claims about a cache miss that overlaps a write                         *)
(***************************************************************************)
\* C29: whatever the interleaving of a getDaySchedule(date) miss that waits on the
\* source with an appendAppointment or updateAppointmentStatus of the same date,
\* once the write has returned the cache holds no snapshot of the date that was
\* read before the write: every entry of the cache lists the appointments the
\* sheet holds for its date (so a later non-fresh getDaySchedule, which returns
\* the entry, returns no older snapshot either).
C29_NoStaleRepopulation ==
  \A d \in Dates :
    ~dayCache[d].isNull =>
      dayCache[d].appointments = ReadDaySchedule(d).appointments

(***************************************************************************)
(* Claims about the expiry of cache entries                                *)
(***************************************************************************)
\* a step of the hourly cleanup: only dayCache changes
CleanupStep ==
  /\ dayCache' # dayCache
  /\ UNCHANGED <<clock, rows, procs, cancels, listed, archive, clients, sweep, reader, storeVars>>

\* C30: a non-fresh getDaySchedule never returns the cached snapshot at or after
\* the entry's expiresAt: it reads the source and stores a new entry that expires
\* 30 minutes after the call's Date.now(); the periodic cleanup deletes every
\* entry whose expiresAt is earlier than the cleanup time and no entry whose
\* expiresAt is later.
C30_CacheExpiry ==
  [][/\ (StartsRead /\ ~reader'.fresh /\ reader'.hit) =>
          (~reader'.held.isNull /\ reader'.held.expiresAt > reader'.now)
     /\ (/\ StartsRead /\ ~reader'.fresh
         /\ ~dayCache[reader'.dateStr].isNull
         /\ dayCache[reader'.dateStr].expiresAt <= clock) =>
          (reader'.pc = "read" /\ ~reader'.hit /\ reader'.result.isNull)
     /\ StoresRead =>
          /\ dayCache'[reader.dateStr].expiresAt = reader.now + CacheTtl
          /\ dayCache'[reader.dateStr].appointments = reader.read.appointments
     /\ CleanupStep =>
          \A d \in Dates :
            /\ (~dayCache[d].isNull /\ dayCache[d].expiresAt < clock) =>
                 dayCache'[d].isNull
            /\ (~dayCache[d].isNull /\ dayCache[d].expiresAt > clock) =>
                 dayCache'[d] = dayCache[d]]_vars

\* at 09:30 the entry that a rejected book() call left for date 1 at 08:45 is gone
\* although no write followed the call, and date 2 has the entry that a non-fresh
\* call stored at 09:15 after it found the previous one expiring at 09:15
C30_Witness ==
  /\ clock = ToInstant(1, <<9, 30>>)
  /\ \E p \in Procs :
       /\ procs[p].pc = "done" /\ procs[p].result = "slot_taken"
       /\ procs[p].req.dateStr = 1
       /\ \A q \in Procs \ {p} : procs[q].pc = "done" /\ procs[q].result = "ok"
  /\ \A c \in Cancellers : cancels[c].pc = "idle"
  /\ dayCache[1].isNull
  /\ reader.pc = "done" /\ reader.dateStr = 2 /\ ~reader.fresh /\ ~reader.hit
  /\ ~reader.held.isNull /\ reader.held.expiresAt = reader.now
  /\ ~dayCache[2].isNull /\ dayCache[2].expiresAt = reader.now + CacheTtl
  /\ dayCache[2].expiresAt > clock

(***************************************************************************)
(* Claims about the shape of cache entries                                 *)
(***************************************************************************)
\* the entry that one refresh at time now assigns from the snapshot it read
EntryOf(snapshot, now) ==
  [isNull |-> FALSE, schedule |-> snapshot.schedule,
   appointments |-> snapshot.appointments, expiresAt |-> now + CacheTtl]

\* C31: every cache entry has its schedule, appointments and expiresAt from one
\* single refresh of its date: a step that changes the entry of a date either
\* deletes it or assigns all three fields from one snapshot of that date and that
\* call's Date.now(), and the appointments of an entry are of its date and are
\* neither Cancelled nor Completed in the snapshot.
C31_WholesaleReplacement ==
  [][\A d \in Dates :
       /\ dayCache'[d] # dayCache[d] =>
            \/ dayCache'[d].isNull
            \/ /\ StoresRead /\ d = reader.dateStr
               /\ dayCache'[d] = EntryOf(reader.read, reader.now)
            \/ /\ ~StoresRead
               /\ dayCache'[d] = EntryOf(ReadDaySchedule(d), clock)
       /\ ~dayCache'[d].isNull =>
            \A i \in 1..Len(dayCache'[d].appointments) :
              LET a == dayCache'[d].appointments[i]
              IN a.date = d /\ a.status # CANCELLED /\ a.status # COMPLETED]_vars

\* a refresh has replaced an entry that existed: all three fields are the
\* refresh's, the expiry is later than the replaced entry's
C31_Witness ==
  /\ reader.pc = "done" /\ ~reader.hit
  /\ ~reader.held.isNull
  /\ reader.result.appointments # <<>>
  /\ dayCache[reader.dateStr] = EntryOf(reader.result, reader.now)
  /\ dayCache[reader.dateStr].expiresAt > reader.held.expiresAt

(***************************************************************************)
(* Claims about failing checks of book()                                   *)
(***************************************************************************)
\* C32: a failing check does not block a booking: when the ban-status lookup
\* fails, book() goes on to the work-hours and slot checks as for an owner who is
\* not banned, and when the read of the quota check fails, book() goes on to
\* write the appointment as for an owner under quota.
C32_FailingChecksDoNotBlock ==
  [][\A p \in Procs :
       /\ (/\ procs[p].pc = "idle" /\ procs'[p].pc # "idle"
           /\ procs'[p].fault = "ban") =>
            /\ procs'[p].result # "banned"
            /\ IsClosed(procs'[p].req) =>
                 (procs'[p].pc = "done" /\ procs'[p].result = "closed")
            /\ ~IsClosed(procs'[p].req) =>
                 \/ procs'[p].pc = "quota"
                 \/ procs'[p].pc = "done" /\ procs'[p].result = "slot_taken"
       /\ (/\ procs[p].pc = "quota" /\ procs'[p].pc # "quota"
           /\ procs'[p].fault = "quota") =>
            /\ procs'[p].pc = "append"
            /\ procs'[p].result # "limit_exceeded"]_vars

\* the booking of a banned owner whose ban lookup failed was written and returned ok
C32_Witness ==
  \E p \in Procs :
    /\ procs[p].pc = "done" /\ procs[p].result = "ok" /\ procs[p].fault = "ban"
    /\ IsBanned(procs[p].req)
    /\ \E i \in 1..Len(rows) :
         rows[i].id = IdOf(p) /\ rows[i].status = ACTIVE /\ rows[i].telegramId = procs[p].req.telegramId

\* the booking of an owner at quota whose quota read failed was written and returned ok
C32_QuotaCase ==
  \E p \in Procs :
    /\ procs[p].pc = "done" /\ procs[p].result = "ok" /\ procs[p].fault = "quota"
    /\ ActiveCount(procs[p].req.telegramId, procs[p].req.dateStr) > QuotaLimit

(***************************************************************************)
(* Claims about the target of a status update                              *)
(***************************************************************************)
AllStoredIds == {rows[i].id : i \in 1..Len(rows)} \cup {archive[i].id : i \in 1..Len(archive)}

\* the write of an updateAppointmentStatus call happens in this step
WritesUpdate == updater.pc = "write" /\ updater'.pc = "done"

\* C36: updateAppointmentStatus(id, ...) changes only the stored row of the
\* appointment with that id, also when a concurrent appendAppointment or
\* archiveOldAppointments appends or removes rows of the appointments sheet
\* between its read and its write: the rows of every other id are after the
\* write what they were before it.
C36_UpdateHitsOnlyTarget ==
  [][WritesUpdate =>
       \A id \in AllStoredIds \ {updater.id} :
         RowsWithId(rows', archive', id) = RowsWithId(rows, archive, id)]_vars

(***************************************************************************)
(* Claims about the frame of the race resolution                           *)
(***************************************************************************)
\* the status update by which a book() call cancels the appointment it has just
\* appended reaches the sheet in this step
ReconcilesOwn ==
  /\ WritesUpdate
  /\ updater.status = CANCELLED
  /\ updater.id \in AppendedIds

\* C33: the race resolution of a book() call never changes the status or any
\* field of an appointment other than the one that call has just written: when
\* its updateAppointmentStatus(id, CANCELLED) reaches the sheets, every line that
\* holds another appointment holds the same values afterwards.
C33_ReconciliationFrame ==
  [][ReconcilesOwn =>
       /\ \A i \in 1..Len(rows) :
            rows[i].id # updater.id => (i <= Len(rows') /\ rows'[i] = rows[i])
       /\ \A i \in 1..Len(archive) :
            archive[i].id # updater.id => (i <= Len(archive') /\ archive'[i] = archive[i])]_vars

\* the same frame where the status update is one step: a losing call's step changes
\* no row but its own
C33_FrameOfCancelSelf ==
  [][\A p \in Procs :
       (procs[p].pc = "cancel" /\ procs'[p].pc = "done") =>
         /\ Len(rows') = Len(rows)
         /\ \A i \in 1..Len(rows) : rows[i].id # IdOf(p) => rows'[i] = rows[i]
         /\ archive' = archive]_vars

(***************************************************************************)
(* Claims about the race resolution in a chain of bookings                 *)
(***************************************************************************)
\* C34: no booking is lost without a surviving conflict: when all concurrent
\* book() calls have returned (nothing else cancelled or completed a row), every
\* appointment that the race resolution cancelled overlaps an appointment that is
\* Active, also in a chain where the first overlaps the second and the second the
\* third but the first does not overlap the third.
C34_SurvivingConflict ==
  (\A p \in ChainProcs : procs[p].pc = "done") =>
    \A i \in 1..Len(rows) :
      rows[i].status = CANCELLED =>
        \E j \in 1..Len(rows) : rows[j].status = ACTIVE /\ RowsOverlap(rows[i], rows[j])

(***************************************************************************)
(* Claims about concurrent cancellations                                   *)
(***************************************************************************)
\* C35: a cancellation succeeds at most once: when concurrent cancelByOwner and
\* cancelByCode calls aimed at one Active appointment have all returned, at most
\* one of them returned ok and every other one returned already_cancelled.
C35_CancelAtMostOnce ==
  (\A c \in RaceCancellers : cancels[c].pc = "done" /\ cancels[c].id = 1) =>
    /\ Cardinality({c \in RaceCancellers : cancels[c].result = "ok"}) <= 1
    /\ \A c \in RaceCancellers :
         cancels[c].result # "ok" => cancels[c].result = "already_cancelled"

(***************************************************************************)
(* Claims about the lock of the completion sweep                           *)
(***************************************************************************)
\* the job fires in this step
SweepFires == sweep'.runs + sweep'.skipped = sweep.runs + sweep.skipped + 1

\* C37: completion sweeps do not overlap and the lock is always released: a tick
\* that fires while a sweep is running returns without reading or writing
\* anything and starts no run; the lock is taken exactly while a run is under
\* way, and the end of every run, whether a store call failed in it or not,
\* leaves the lock free.
C37_SweepLock ==
  [][/\ (SweepFires /\ sweep.lock) =>
          /\ sweep'.runs = sweep.runs
          /\ sweep' = [sweep EXCEPT !.skipped = @ + 1]
          /\ UNCHANGED <<rows, archive, clients, dayCache>>
     /\ (SweepFires /\ ~sweep.lock) => (sweep'.lock /\ sweep'.pc = "run")
     /\ sweep'.lock <=> sweep'.pc = "run"
     /\ EndsSweep => ~sweep'.lock]_vars

\* a second run has just started after a run in which a store call failed and
\* during which a tick was skipped
C37_Witness ==
  /\ sweep.runs = 2 /\ sweep.pc = "run" /\ sweep.lock
  /\ sweep.faults > 0 /\ sweep.skipped > 0
  /\ sweep.updates = 0
  /\ sweep.queue # <<>> /\ sweep.queue = getAllActiveAppointments

(***************************************************************************)
(* Claims about the rate limiter                                           *)
(***************************************************************************)
\* the accepted calls of the user among the first n calls
AcceptedOf(userId, n) ==
  {j \in 1..n : limiter.log[j].userId = userId /\ limiter.log[j].allowed}

\* the accepted calls of the user before call i that are less than 60 s old at call i
YoungAt(i) ==
  {j \in AcceptedOf(limiter.log[i].userId, i - 1) :
     limiter.log[i].at - limiter.log[j].at < windowMs}

\* the window property for the calls of one user
WindowHolds(userId) ==
  \A i \in 1..Len(limiter.log) :
    limiter.log[i].userId = userId =>
      /\ limiter.log[i].allowed => Cardinality(YoungAt(i)) + 1 <= RateLimit
      /\ ~limiter.log[i].allowed <=> Cardinality(YoungAt(i)) >= RateLimit

\* C38 as stated: for every user and every sequence of checkRateLimit calls with
\* limit L, the calls that return true within any 60-second window number at most
\* L, and a call returns false exactly when L accepted calls of that user are less
\* than 60 seconds old (rejected calls are not counted).
C38_SlidingWindow == \A u \in RateUsers : WindowHolds(u)

\* C38 amended: the same for every user whose entry has not been removed by the
\* size limit of the map: the accepted calls within any 60-second window number at
\* most L and a call returns false exactly when L accepted calls of that user are
\* less than 60 seconds old.
C38_SlidingWindowWhileTracked ==
  \A u \in RateUsers \ limiter.evicted : WindowHolds(u)

\* a user who was never evicted was accepted twice, rejected within the window and
\* accepted again at its end, while the size limit removed another user's entry
C38_Witness ==
  /\ limiter.evicted # {}
  /\ \E u \in RateUsers \ limiter.evicted :
       \E i, j \in 1..Len(limiter.log) :
         /\ i < j
         /\ limiter.log[i].userId = u /\ ~limiter.log[i].allowed
         /\ limiter.log[j].userId = u /\ limiter.log[j].allowed
         /\ Cardinality(AcceptedOf(u, i)) = RateLimit

====
